---- MODULE Spec2Model ----
(***************************************************************************)
(* Model of the eq1_pulse builder (src/src/eq1_pulse/builder/core.py and   *)
(* builder/utils.py): one module-level scope stack, one operation-name     *)
(* counter and one registry of unconsumed ScheduleBlocks keyed by the      *)
(* id() of the scope that was current when the block was created.          *)
(*                                                                         *)
(* A builder state is the record                                            *)
(* [stack, heap, ctr, unc, auto, exc, ret, report]:                        *)
(*   stack  _context_stack, a sequence of object ids                       *)
(*   heap   the live container objects, id -> [kind, items]; a control     *)
(*          flow node and its body list are one object                     *)
(*   ctr    _op_counter                                                    *)
(*   unc    _unconsumed_blocks, key -> sequence of block ids               *)
(*   auto   the names _generate_op_name has produced so far                *)
(*   exc    the exception a call left pending ("none" when it returned)    *)
(*   ret    the value a call returned (a token, or NoToken for None)       *)
(*   report the blocks the RuntimeError of a schedule close names          *)
(* Every builder function is an operator from such a record (and the       *)
(* call's arguments) to such a record, written in the order of the code.   *)
(***************************************************************************)
EXTENDS Integers, Sequences, FiniteSets, TLC

VARIABLES
    context_stack,      \* _context_stack
    heap,               \* the container objects that are alive
    op_counter,         \* _op_counter
    unconsumed_blocks,  \* _unconsumed_blocks
    blocks,             \* the ScheduleBlocks created so far: block id ->
                        \* its body, whether add_block was called with it,
                        \* whether such a call returned, how many items the
                        \* current scope held when the block was created
    auto_names,         \* the names _generate_op_name has returned so far
    frames,             \* the with-blocks of the calling program that are open
    exc,                \* the exception propagating in the calling program
    last,               \* the last builder call: what was called, what it gave
    pre                 \* the builder state right before that call

vars == <<context_stack, heap, op_counter, unconsumed_blocks, blocks, auto_names,
          frames, exc, last, pre>>

----------------------------------------------------------------------------
(* Bounds of the model *)

\* object ids are 1..MaxObjs: at most this many containers are alive at once
MaxObjs == 2
\* no container is given more than this many items
MaxItems == 2
\* no call is made that would take _op_counter above this
MaxCounter == 3
\* at most this many ScheduleBlocks are created
MaxBlocks == 2

----------------------------------------------------------------------------
(* Values *)

\* Python's None in a field that otherwise holds a string
None == "None"

SeqKinds == {"OpSequence", "Repetition", "Iteration", "Conditional"}
SchedBodyKinds == {"SchedRepetition", "SchedIteration", "SchedConditional"}
SchedKinds == {"Schedule"} \cup SchedBodyKinds

\* The value a call returns when it returns None
NoToken == [tok |-> FALSE, name |-> None]

\* OperationToken(name, operation): only the name is ever read back
OperationToken(name) == [tok |-> TRUE, name |-> name]

\* A plain string given where a token may be given (ref_op="init")
Str(name) == [tok |-> FALSE, name |-> name]

\* A leaf operation object (Play, Wait, Barrier, ...): its discriminator and
\* the number of channels it records
Op(op_type, nch) == [t |-> "leaf", op_type |-> op_type, nch |-> nch]

\* A container object held as an item of another container
Node(id) == [t |-> "node", id |-> id]

Min(S) == CHOOSE x \in S : \A y \in S : x <= y

Last(q) == q[Len(q)]

----------------------------------------------------------------------------
(* builder/utils.py *)

resolve_schedule_params_keeps_token(params) ==
    IF "rel_time" \in DOMAIN params /\ params["rel_time"] = "0"
    THEN [k \in DOMAIN params \ {"rel_time"} |-> params[k]]
    ELSE params

\* resolve_schedule_params: a token given as ref_op is replaced by its name
\* string; a rel_time equal to 0 is removed
resolve_schedule_params(params) ==
    LET resolved == [k \in DOMAIN params |->
                        IF k = "ref_op" /\ params[k].tok THEN Str(params[k].name)
                        ELSE params[k]]
    IN  IF "rel_time" \in DOMAIN resolved /\ resolved["rel_time"] = "0"
        THEN [k \in DOMAIN resolved \ {"rel_time"} |-> resolved[k]]
        ELSE resolved

----------------------------------------------------------------------------
(* models/schedule.py *)

RefPt == {"start", "end", "center"}

FieldOf(data, k) == IF k \in DOMAIN data THEN data[k] ELSE None

\* The field types of ScheduledOperation as pydantic validates them: ref_op
\* is a string or None (a token object is neither), ref_pt and ref_pt_new
\* are RefPt values or None
ValidScheduledOperation(data) ==
    /\ "ref_op" \in DOMAIN data => ~data["ref_op"].tok
    /\ FieldOf(data, "ref_pt") \in RefPt \cup {None}
    /\ FieldOf(data, "ref_pt_new") \in RefPt \cup {None}

\* ScheduledOperation(op=op, **data): every field not given is None
ScheduledOperation(op, data) ==
    [t          |-> "sched",
     name       |-> FieldOf(data, "name"),
     rel_time   |-> FieldOf(data, "rel_time"),
     ref_op     |-> IF "ref_op" \in DOMAIN data THEN data["ref_op"].name ELSE None,
     ref_pt     |-> FieldOf(data, "ref_pt"),
     ref_pt_new |-> FieldOf(data, "ref_pt_new"),
     op         |-> op]

----------------------------------------------------------------------------
(* builder/core.py: module state and the two dispatchers *)

Top(s) == s.stack[Len(s.stack)]
KindOf(s, id) == s.heap[id].kind
Raise(s, e) == [s EXCEPT !.exc = e, !.ret = NoToken]
Return(s, v) == [s EXCEPT !.ret = v]

PrependItem(s, id, item) == [s EXCEPT !.heap[id].items = <<item>> \o @]

\* list.append(item) on the item list of the container id
AppendItem(s, id, item) == [s EXCEPT !.heap[id].items = Append(@, item)]

Push(s, id) == [s EXCEPT !.stack = Append(@, id)]
Pop(s) == [s EXCEPT !.stack = SubSeq(@, 1, Len(@) - 1)]
Alloc(s, id, kind) == [s EXCEPT !.heap = (id :> [kind |-> kind, items |-> <<>>]) @@ @]

\* Two statements in a row: the second runs on the state the first left,
\* unless the first raised
Then(s1, F(_)) == IF s1.exc # "none" THEN s1 ELSE F(s1)

\* isinstance(context, Schedule | SchedRepetition | SchedIteration | SchedConditional)
IsScheduleLike(s) == KindOf(s, Top(s)) \in SchedKinds
\* isinstance(context, OpSequence | Repetition | Iteration | Conditional)
IsSequenceLike(s) == KindOf(s, Top(s)) \in SeqKinds
\* isinstance(context, Schedule)
IsSchedule(s) == KindOf(s, Top(s)) = "Schedule"

_generate_op_name_fixed(s) == "op_1"

\* _generate_op_name: the name made from the incremented counter (the
\* caller stores the increment)
_generate_op_name(s) == "op_" \o ToString(s.ctr + 1)

\* _current_context raises when the stack is empty
NoContext(s) == s.stack = <<>>

_add_to_sequence_at_bottom(s, operation) ==
    IF NoContext(s) THEN Raise(s, "RuntimeError")
    ELSE IF KindOf(s, Top(s)) \in SeqKinds
         THEN Return(AppendItem(s, s.stack[1], operation), NoToken)
    ELSE Raise(s, "RuntimeError")

\* _add_to_sequence
_add_to_sequence(s, operation) ==
    IF NoContext(s) THEN Raise(s, "RuntimeError")
    ELSE IF KindOf(s, Top(s)) \in {"Repetition", "Iteration", "Conditional"}
         THEN Return(AppendItem(s, Top(s), operation), NoToken)
    ELSE IF KindOf(s, Top(s)) = "OpSequence"
         THEN Return(AppendItem(s, Top(s), operation), NoToken)
    ELSE Raise(s, "RuntimeError")

\* _add_to_schedule
_add_to_schedule(s, operation, schedule_params) ==
    IF NoContext(s) THEN Raise(s, "RuntimeError")
    ELSE
    LET resolved == resolve_schedule_params(schedule_params)
        gen      == "name" \notin DOMAIN resolved
        named    == IF gen THEN ("name" :> _generate_op_name(s)) @@ resolved ELSE resolved
        s1       == IF gen THEN [s EXCEPT !.ctr = @ + 1, !.auto = @ \cup {_generate_op_name(s)}]
                    ELSE s
        sched_op == ScheduledOperation(operation, named)
    IN  IF ~ValidScheduledOperation(named) THEN Raise(s1, "ValidationError")
        ELSE IF KindOf(s1, Top(s1)) \in SchedBodyKinds
        THEN Return(AppendItem(s1, Top(s1), sched_op), OperationToken(named["name"]))
        ELSE IF KindOf(s1, Top(s1)) = "Schedule"
        THEN Return(AppendItem(s1, Top(s1), sched_op), OperationToken(named["name"]))
        ELSE Raise(s1, "RuntimeError")

----------------------------------------------------------------------------
(* builder/core.py: leaf operations.  Each builds its operation object and  *)
(* then dispatches on the kind of the current context.                      *)

play_returns_none(s, schedule_params) ==
    IF NoContext(s) THEN Raise(s, "RuntimeError")
    ELSE IF IsScheduleLike(s)
         THEN Return(_add_to_schedule(s, Op("play", 1), schedule_params), NoToken)
    ELSE _add_to_sequence(s, Op("play", 1))

\* play(channel, pulse, **schedule_params)
play(s, schedule_params) ==
    IF NoContext(s) THEN Raise(s, "RuntimeError")
    ELSE IF IsScheduleLike(s) THEN _add_to_schedule(s, Op("play", 1), schedule_params)
    ELSE _add_to_sequence(s, Op("play", 1))

wait_without_channel_check(s, nch, schedule_params) ==
    IF NoContext(s) THEN Raise(s, "RuntimeError")
    ELSE IF IsScheduleLike(s) THEN _add_to_schedule(s, Op("wait", nch), schedule_params)
    ELSE _add_to_sequence(s, Op("wait", nch))

\* wait(*channels, duration, **schedule_params) with nch channels
wait(s, nch, schedule_params) ==
    IF NoContext(s) THEN Raise(s, "RuntimeError")
    ELSE IF IsScheduleLike(s) /\ nch > 1 THEN Raise(s, "RuntimeError")
    ELSE IF IsScheduleLike(s) THEN _add_to_schedule(s, Op("wait", nch), schedule_params)
    ELSE _add_to_sequence(s, Op("wait", nch))

barrier_wrapped_in_schedule(s, nch) ==
    IF NoContext(s) THEN Raise(s, "RuntimeError")
    ELSE IF IsScheduleLike(s)
         THEN Return(_add_to_schedule(s, Op("barrier", nch), <<>>), NoToken)
    ELSE _add_to_sequence(s, Op("barrier", nch))

\* barrier(*channels)
barrier(s, nch) ==
    IF NoContext(s) THEN Raise(s, "RuntimeError")
    ELSE IF IsSchedule(s) THEN Raise(s, "RuntimeError")
    ELSE _add_to_sequence(s, Op("barrier", nch))

\* set_frequency(channel, frequency, **schedule_params)
set_frequency(s, schedule_params) ==
    IF NoContext(s) THEN Raise(s, "RuntimeError")
    ELSE IF IsSchedule(s) THEN _add_to_schedule(s, Op("set_frequency", 1), schedule_params)
    ELSE _add_to_sequence(s, Op("set_frequency", 1))

\* shift_frequency(channel, frequency, **schedule_params)
shift_frequency(s, schedule_params) ==
    IF NoContext(s) THEN Raise(s, "RuntimeError")
    ELSE IF IsSchedule(s) THEN _add_to_schedule(s, Op("shift_frequency", 1), schedule_params)
    ELSE _add_to_sequence(s, Op("shift_frequency", 1))

\* set_phase(channel, phase, **schedule_params)
set_phase(s, schedule_params) ==
    IF NoContext(s) THEN Raise(s, "RuntimeError")
    ELSE IF IsSchedule(s) THEN _add_to_schedule(s, Op("set_phase", 1), schedule_params)
    ELSE _add_to_sequence(s, Op("set_phase", 1))

\* shift_phase(channel, phase, **schedule_params)
shift_phase(s, schedule_params) ==
    IF NoContext(s) THEN Raise(s, "RuntimeError")
    ELSE IF IsSchedule(s) THEN _add_to_schedule(s, Op("shift_phase", 1), schedule_params)
    ELSE _add_to_sequence(s, Op("shift_phase", 1))

\* record(channel, var, duration, ..., **schedule_params)
record(s, schedule_params) ==
    IF NoContext(s) THEN Raise(s, "RuntimeError")
    ELSE IF IsSchedule(s) THEN _add_to_schedule(s, Op("record", 1), schedule_params)
    ELSE _add_to_sequence(s, Op("record", 1))

\* discriminate(target, source, threshold, ..., **schedule_params)
discriminate(s, schedule_params) ==
    IF NoContext(s) THEN Raise(s, "RuntimeError")
    ELSE IF IsSchedule(s) THEN _add_to_schedule(s, Op("discriminate", 0), schedule_params)
    ELSE _add_to_sequence(s, Op("discriminate", 0))

\* store(key, source, mode, **schedule_params)
store(s, schedule_params) ==
    IF NoContext(s) THEN Raise(s, "RuntimeError")
    ELSE IF IsSchedule(s) THEN _add_to_schedule(s, Op("store", 0), schedule_params)
    ELSE _add_to_sequence(s, Op("store", 0))

\* var_decl(name, dtype, shape, unit)
var_decl(s) == _add_to_sequence(s, Op("var_decl", 0))

\* measure(channel, result_var, duration, amplitude, ..., **schedule_params)
measure(s, schedule_params) ==
    IF NoContext(s) THEN Raise(s, "RuntimeError")
    ELSE IF IsSchedule(s)
    THEN Then(play(s, schedule_params), LAMBDA s1 :
            record(s1, [k \in DOMAIN schedule_params
                                \cup {"ref_op", "ref_pt", "ref_pt_new", "rel_time"} |->
                           CASE k = "ref_op"     -> Str(s1.ret.name)
                             [] k = "ref_pt"     -> "start"
                             [] k = "ref_pt_new" -> "start"
                             [] k = "rel_time"   -> "0"
                             [] OTHER            -> schedule_params[k]]))
    ELSE Then(play(s, <<>>), LAMBDA s1 : Return(record(s1, <<>>), NoToken))

\* measure_and_discriminate(channel, raw_var, result_var, ..., **schedule_params)
measure_and_discriminate(s, schedule_params) ==
    Then(measure(s, schedule_params), LAMBDA s1 : discriminate(s1, schedule_params))

\* Constructing a model object from a malformed field value (a negative
\* duration or count, a non-identifier name, iteration variables that do not
\* match the iterables): pydantic raises
ValidationError(s) == Raise(s, "ValidationError")

\* measure given a malformed argument: the duration goes into square_pulse
\* before anything else, the channel into the Play that play constructs, the
\* result variable into the Record that record constructs after play returned
measure_malformed(s, schedule_params, bad) ==
    IF bad = "duration" THEN ValidationError(s)
    ELSE IF NoContext(s) THEN Raise(s, "RuntimeError")
    ELSE IF bad = "channel" THEN ValidationError(s)
    ELSE IF IsSchedule(s)
    THEN Then(play(s, schedule_params), LAMBDA s1 : ValidationError(s1))
    ELSE Then(play(s, <<>>), LAMBDA s1 : ValidationError(s1))

\* measure_and_discriminate given a malformed argument: all but the target
\* variable and the threshold go into measure, those two into the Discriminate
\* that discriminate constructs after measure returned
measure_and_discriminate_malformed(s, schedule_params, bad) ==
    IF bad = "target"
    THEN Then(measure(s, schedule_params), LAMBDA s1 : ValidationError(s1))
    ELSE measure_malformed(s, schedule_params, bad)

\* wait given a negative duration: Wait is constructed after the context was
\* read and the channel count checked
wait_malformed(s, nch) ==
    IF NoContext(s) THEN Raise(s, "RuntimeError")
    ELSE IF IsScheduleLike(s) /\ nch > 1 THEN Raise(s, "RuntimeError")
    ELSE ValidationError(s)

\* The call fn(...) with the argument bad malformed.  play, record and
\* discriminate construct their operation first of all; repeat, for_ and if_
\* construct their node first of all; measure_and_discriminate_and_if_ calls
\* measure_and_discriminate before if_
MalformedCall(fn, s, nch, schedule_params, bad) ==
    CASE fn = "wait" -> wait_malformed(s, nch)
      [] fn = "measure" -> measure_malformed(s, schedule_params, bad)
      [] fn \in {"measure_and_discriminate", "measure_and_discriminate_and_if_"} ->
            measure_and_discriminate_malformed(s, schedule_params, bad)
      [] OTHER -> ValidationError(s)

\* The calls with a malformed argument that are made
MalformedCalls ==
    {<<"play", "channel">>, <<"wait", "duration">>, <<"record", "duration">>,
     <<"record", "var">>, <<"discriminate", "target">>,
     <<"measure", "duration">>, <<"measure", "channel">>, <<"measure", "var">>,
     <<"measure_and_discriminate", "var">>, <<"measure_and_discriminate", "target">>,
     <<"measure_and_discriminate_and_if_", "target">>,
     <<"repeat", "count">>, <<"for_", "arity">>, <<"if_", "var">>}

\* The leaf-emitting functions that take schedule parameters
LeafFns == {"play", "wait", "set_frequency", "shift_frequency", "set_phase",
            "shift_phase", "record", "discriminate", "store",
            "measure", "measure_and_discriminate"}

\* The call fn(..., **schedule_params), wait being given nch channels
LeafCall(fn, s, nch, schedule_params) ==
    CASE fn = "play"            -> play(s, schedule_params)
      [] fn = "wait"            -> wait(s, nch, schedule_params)
      [] fn = "barrier"         -> barrier(s, nch)
      [] fn = "set_frequency"   -> set_frequency(s, schedule_params)
      [] fn = "shift_frequency" -> shift_frequency(s, schedule_params)
      [] fn = "set_phase"       -> set_phase(s, schedule_params)
      [] fn = "shift_phase"     -> shift_phase(s, schedule_params)
      [] fn = "record"          -> record(s, schedule_params)
      [] fn = "discriminate"    -> discriminate(s, schedule_params)
      [] fn = "store"           -> store(s, schedule_params)
      [] fn = "var_decl"        -> var_decl(s)
      [] fn = "measure"         -> measure(s, schedule_params)
      [] fn = "measure_and_discriminate" -> measure_and_discriminate(s, schedule_params)

----------------------------------------------------------------------------
(* builder/core.py: the context managers.  X_enter is the code of X up to   *)
(* its yield, X_exit the code of its finally clause; new_id is the id() of  *)
(* the container the call constructs.                                       *)

\* _unconsumed_blocks is a defaultdict(list): reading a missing key gives []
BlocksOf(unc, key) == IF key \in DOMAIN unc THEN unc[key] ELSE <<>>
DelKey(unc, key) == [k \in DOMAIN unc \ {key} |-> unc[k]]

pop_context_skipped_on_error(s) == IF s.exc # "none" THEN s ELSE Pop(s)

pop_context_at_bottom(s) == [s EXCEPT !.stack = Tail(@)]

\* _context_stack.pop() in a finally clause; a pending exception stays pending
pop_context(s) == IF s.stack = <<>> THEN Raise(s, "IndexError") ELSE Pop(s)

\* build_sequence, up to the yield
build_sequence_enter(s, new_id) == Push(Alloc(s, new_id, "OpSequence"), new_id)

\* sub_sequence, up to the yield
sub_sequence_enter(s, new_id) ==
    IF NoContext(s) THEN Raise(s, "RuntimeError")
    ELSE IF ~IsSequenceLike(s) THEN Raise(s, "RuntimeError")
    ELSE Then(_add_to_sequence(s, Node(new_id)), LAMBDA s1 :
            Push(Alloc(s1, new_id, "OpSequence"), new_id))

\* build_schedule, up to the yield
build_schedule_enter(s, new_id) == Push(Alloc(s, new_id, "Schedule"), new_id)

sub_schedule_enter_without_check(s, new_id, schedule_params) ==
    Then(_add_to_schedule(s, Node(new_id), schedule_params), LAMBDA s1 :
        Return(Push(Alloc(s1, new_id, "Schedule"), new_id), NoToken))

\* sub_schedule, up to the yield
sub_schedule_enter(s, new_id, schedule_params) ==
    IF NoContext(s) THEN Raise(s, "RuntimeError")
    ELSE IF ~IsSchedule(s) THEN Raise(s, "RuntimeError")
    ELSE Then(_add_to_schedule(s, Node(new_id), schedule_params), LAMBDA s1 :
            Return(Push(Alloc(s1, new_id, "Schedule"), new_id), NoToken))

schedule_exit_keeps_scope_on_error(s, sched_id) ==
    LET unconsumed == BlocksOf(s.unc, sched_id)
    IN  IF unconsumed # <<>>
        THEN [Raise(s, "RuntimeError") EXCEPT !.report = unconsumed]
        ELSE pop_context([s EXCEPT !.unc = DelKey(@, sched_id)])

\* The finally clause of build_schedule and of sub_schedule (the same code):
\* with unconsumed blocks registered under sched_id, delete the entry, pop
\* and raise RuntimeError naming them; otherwise delete the entry and pop
schedule_exit(s, sched_id) ==
    LET unconsumed == BlocksOf(s.unc, sched_id)
    IN  IF unconsumed # <<>>
        THEN LET s1 == pop_context([s EXCEPT !.unc = DelKey(@, sched_id)])
             IN  IF s1.exc = "IndexError" THEN s1
                 ELSE [Raise(s1, "RuntimeError") EXCEPT !.report = unconsumed]
        ELSE pop_context([s EXCEPT !.unc = DelKey(@, sched_id)])

repeat_enter_detached(s, new_id, schedule_params) ==
    IF ~NoContext(s) /\ IsScheduleLike(s)
    THEN Return(Push(Alloc(s, new_id, "SchedRepetition"), new_id), NoToken)
    ELSE Push(Alloc(s, new_id, "Repetition"), new_id)

\* repeat, up to the yield
repeat_enter(s, new_id, schedule_params) ==
    IF ~NoContext(s) /\ IsScheduleLike(s)
    THEN Then(_add_to_schedule(s, Node(new_id), schedule_params), LAMBDA s1 :
            Return(Push(Alloc(s1, new_id, "SchedRepetition"), new_id), NoToken))
    ELSE IF ~NoContext(s) /\ IsSequenceLike(s)
    THEN Push(Alloc(AppendItem(s, Top(s), Node(new_id)), new_id, "Repetition"), new_id)
    ELSE Push(Alloc(s, new_id, "Repetition"), new_id)

\* for_, up to the yield
for_enter(s, new_id, schedule_params) ==
    IF ~NoContext(s) /\ IsSequenceLike(s)
    THEN Push(Alloc(AppendItem(s, Top(s), Node(new_id)), new_id, "Iteration"), new_id)
    ELSE IF ~NoContext(s) /\ IsScheduleLike(s)
    THEN Then(_add_to_schedule(s, Node(new_id), schedule_params), LAMBDA s1 :
            Return(Push(Alloc(s1, new_id, "SchedIteration"), new_id), NoToken))
    ELSE Push(Alloc(s, new_id, "Iteration"), new_id)

\* if_, up to the yield
if_enter(s, new_id, schedule_params) ==
    IF ~NoContext(s) /\ IsSequenceLike(s)
    THEN Push(Alloc(AppendItem(s, Top(s), Node(new_id)), new_id, "Conditional"), new_id)
    ELSE IF ~NoContext(s) /\ IsScheduleLike(s)
    THEN Then(_add_to_schedule(s, Node(new_id), schedule_params), LAMBDA s1 :
            Return(Push(Alloc(s1, new_id, "SchedConditional"), new_id), NoToken))
    ELSE Push(Alloc(s, new_id, "Conditional"), new_id)

measure_and_discriminate_and_if_enter_without_discriminate(s, new_id, schedule_params) ==
    Then(measure(s, schedule_params), LAMBDA s1 :
        Return(if_enter(s1, new_id, <<>>), NoToken))

\* measure_and_discriminate_and_if_, up to the yield: the measurement and the
\* discrimination with the caller's parameters, then if_(result_var)
measure_and_discriminate_and_if_enter(s, new_id, schedule_params) ==
    Then(measure_and_discriminate(s, schedule_params), LAMBDA s1 :
        Return(if_enter(s1, new_id, <<>>), NoToken))

----------------------------------------------------------------------------
(* builder/core.py: ScheduleBlock and add_block *)

\* What a function decorated with nested_schedule does when it finally runs:
\* "play" emits one play without parameters, "raise" raises
BodyKinds == {"play", "raise"}

ScheduleBlock_init_without_context(s, b) ==
    LET key == IF NoContext(s) THEN 0 ELSE Top(s)
    IN  [s EXCEPT !.unc = (key :> Append(BlocksOf(s.unc, key), b)) @@ @]

ScheduleBlock_init_at_bottom(s, b) ==
    IF NoContext(s) THEN Raise(s, "RuntimeError")
    ELSE [s EXCEPT !.unc = (s.stack[1] :> Append(BlocksOf(s.unc, s.stack[1]), b)) @@ @]

\* ScheduleBlock.__init__ for the new block b (nested_schedule's wrapper
\* does nothing else)
ScheduleBlock_init(s, b) ==
    IF NoContext(s) THEN Raise(s, "RuntimeError")
    ELSE [s EXCEPT !.unc = (Top(s) :> Append(BlocksOf(s.unc, Top(s)), b)) @@ @]

RemoveFirst(q, b) ==
    LET i == Min({j \in 1..Len(q) : q[j] = b})
    IN  SubSeq(q, 1, i - 1) \o SubSeq(q, i + 1, Len(q))

_execute_without_removal(s, b, body) ==
    IF body = "raise" THEN Raise(s, "UserError") ELSE play(s, <<>>)

_execute_before_removal(s, b, body) ==
    IF body = "raise" THEN Raise(s, "UserError") ELSE _execute_without_removal(s, b, body)

\* ScheduleBlock._execute: remove the block from the list that holds it,
\* then run the captured function
_execute(s, b, body) ==
    LET holders == {k \in DOMAIN s.unc : \E j \in 1..Len(s.unc[k]) : s.unc[k][j] = b}
        s1 == IF holders = {} THEN s
              ELSE LET k == Min(holders)
                   IN  [s EXCEPT !.unc[k] = RemoveFirst(@, b)]
    IN  IF body = "raise" THEN Raise(s1, "UserError") ELSE play(s1, <<>>)

\* add_block(block, **schedule_params)
add_block(s, b, body, new_id, schedule_params) ==
    IF NoContext(s) THEN Raise(s, "RuntimeError")
    ELSE IF ~IsSchedule(s) THEN Raise(s, "RuntimeError")
    ELSE
    LET context == Top(s)
        items_before == Len(s.heap[context].items)
    IN  Then(sub_schedule_enter(s, new_id, schedule_params), LAMBDA s1 :
        Then(schedule_exit(_execute(s1, b, body), new_id), LAMBDA s3 :
            LET items == s3.heap[context].items
            IN  IF Len(items) > items_before /\ Last(items).name \notin {None, ""}
                THEN Return(s3, OperationToken(Last(items).name))
                ELSE Return(s3, NoToken)))

\* func(*args, **kwargs) of a decorated function: the body emits one play
\* without parameters, or raises
call_func(s, body) == IF body = "raise" THEN Raise(s, "UserError") ELSE play(s, <<>>)

\* The wrapper nested_sequence returns: under a sequence-like context the
\* function runs inside sub_sequence(), under a Schedule the call raises,
\* under anything else (no context included) the function is called directly
nested_sequence(s, body, new_id) ==
    IF ~NoContext(s) /\ IsSequenceLike(s)
    THEN Then(sub_sequence_enter(s, new_id), LAMBDA s1 : pop_context(call_func(s1, body)))
    ELSE IF ~NoContext(s) /\ IsSchedule(s) THEN Raise(s, "RuntimeError")
    ELSE call_func(s, body)

----------------------------------------------------------------------------
(* models/base_models.py, models/control_flow.py, models/sequence.py,      *)
(* models/schedule.py: the model objects, their serialization              *)
(* (model_dump) and their validation from serialized data (model_validate) *)
(*                                                                         *)
(* A model object is [cls, f]: its class and its field values.  A          *)
(* serialized value is tagged with its JSON type.                          *)

JNull    == [j |-> "null", v |-> None]
JStr(v)  == [j |-> "str", v |-> v]
JList(q) == [j |-> "list", v |-> q]
JDict(d) == [j |-> "dict", v |-> d]

\* PydanticUndefined, the default of a required field
Undefined == "PydanticUndefined"

\* The value that stands for any valid value of a required field the model
\* does not look into (a pulse, a count, a variable, ...)
Given == "given"

FieldInfo(name, default, literal) == [name |-> name, default |-> default, literal |-> literal]

\* cls.model_fields in declaration order (fields of a base class first):
\* name, default, and whether the annotation is a Literal of one value
model_fields(cls) ==
    CASE cls = "ScheduledOperation" ->
            <<FieldInfo("name", None, FALSE), FieldInfo("rel_time", None, FALSE),
              FieldInfo("ref_op", None, FALSE), FieldInfo("ref_pt", None, FALSE),
              FieldInfo("ref_pt_new", None, FALSE), FieldInfo("op", Undefined, FALSE)>>
      [] cls = "play" ->
            <<FieldInfo("op_type", "play", TRUE), FieldInfo("channel", Undefined, FALSE),
              FieldInfo("pulse", Undefined, FALSE), FieldInfo("scale_amp", None, FALSE),
              FieldInfo("cond", None, FALSE)>>
      [] cls = "wait" ->
            <<FieldInfo("op_type", "wait", TRUE), FieldInfo("channels", Undefined, FALSE),
              FieldInfo("duration", Undefined, FALSE)>>
      [] cls = "barrier" ->
            <<FieldInfo("op_type", "barrier", TRUE), FieldInfo("channels", Undefined, FALSE)>>
      [] cls \in {"set_frequency", "shift_frequency"} ->
            <<FieldInfo("op_type", cls, TRUE), FieldInfo("channel", Undefined, FALSE),
              FieldInfo("frequency", Undefined, FALSE)>>
      [] cls \in {"set_phase", "shift_phase"} ->
            <<FieldInfo("op_type", cls, TRUE), FieldInfo("channel", Undefined, FALSE),
              FieldInfo("phase", Undefined, FALSE)>>
      [] cls = "record" ->
            <<FieldInfo("op_type", "record", TRUE), FieldInfo("channel", Undefined, FALSE),
              FieldInfo("var", Undefined, FALSE), FieldInfo("duration", Undefined, FALSE),
              FieldInfo("integration", Undefined, FALSE),
              FieldInfo("time_of_flight", None, FALSE)>>
      [] cls = "var_decl" ->
            <<FieldInfo("op_type", "var_decl", TRUE), FieldInfo("name", Undefined, FALSE),
              FieldInfo("dtype", Undefined, FALSE), FieldInfo("shape", None, FALSE),
              FieldInfo("unit", None, FALSE)>>
      [] cls = "discriminate" ->
            <<FieldInfo("op_type", "discriminate", TRUE), FieldInfo("target", Undefined, FALSE),
              FieldInfo("source", Undefined, FALSE), FieldInfo("threshold", Undefined, FALSE),
              FieldInfo("rotation", "Phase(0)", FALSE), FieldInfo("compare", ">=", FALSE),
              FieldInfo("project", "real", FALSE)>>
      [] cls = "store" ->
            <<FieldInfo("op_type", "store", TRUE), FieldInfo("key", Undefined, FALSE),
              FieldInfo("source", Undefined, FALSE), FieldInfo("mode", Undefined, FALSE)>>
      [] cls \in {"Repetition", "SchedRepetition"} ->
            <<FieldInfo("op_type", "repeat", TRUE), FieldInfo("count", Undefined, FALSE),
              FieldInfo("body", Undefined, FALSE)>>
      [] cls \in {"Iteration", "SchedIteration"} ->
            <<FieldInfo("op_type", "for", TRUE), FieldInfo("var", Undefined, FALSE),
              FieldInfo("items", Undefined, FALSE), FieldInfo("body", Undefined, FALSE)>>
      [] cls \in {"Conditional", "SchedConditional"} ->
            <<FieldInfo("op_type", "if", TRUE), FieldInfo("var", Undefined, FALSE),
              FieldInfo("body", Undefined, FALSE)>>
      [] OTHER -> <<FieldInfo("items", Undefined, FALSE)>>

FieldNames(fields) == {fields[i].name : i \in DOMAIN fields}

FieldNamed(fields, field_name) == fields[CHOOSE i \in DOMAIN fields : fields[i].name = field_name]

\* LeanModel._non_discriminator_fields: the first field is left out when its
\* annotation is a Literal of exactly one value
_non_discriminator_fields_keeps_first(cls) == model_fields(cls)

_non_discriminator_fields(cls) ==
    LET fields == model_fields(cls)
    IN  IF fields[1].literal THEN Tail(fields) ELSE fields

\* LeanModel._default_value_of
_default_value_of(cls, field_name) ==
    LET fields == _non_discriminator_fields(cls)
    IN  IF field_name \in FieldNames(fields)
        THEN FieldNamed(fields, field_name).default
        ELSE None

is_eq_falsy(attribute_value, default_value) ==
    IF default_value = Undefined THEN FALSE
    ELSE IF default_value = None THEN attribute_value \in {None, "0", ""}
    ELSE attribute_value = default_value

\* is_eq of LeanModel._wrap_serializer
is_eq(attribute_value, default_value) ==
    IF default_value = Undefined THEN FALSE
    ELSE IF default_value = None THEN attribute_value = None
    ELSE attribute_value = default_value

\* The body of a control-flow object is a container of the same flavor
BodyClass(cls) == IF cls \in SchedBodyKinds THEN "Schedule" ELSE "OpSequence"

Container(cls, items) == [cls |-> cls, f |-> [items |-> items]]

\* The model object that the heap holds under x (an item of a container)
RECURSIVE Obj(_, _)
Obj(h, x) ==
    IF x.t = "node" /\ h[x.id].kind \in {"OpSequence", "Schedule"}
    THEN Container(h[x.id].kind, [i \in DOMAIN h[x.id].items |-> Obj(h, h[x.id].items[i])])
    ELSE LET cls    == IF x.t = "sched" THEN "ScheduledOperation"
                       ELSE IF x.t = "leaf" THEN x.op_type
                       ELSE h[x.id].kind
             fields == model_fields(cls)
         IN [cls |-> cls,
             f   |-> [k \in FieldNames(fields) |->
                        IF k = "op" THEN Obj(h, x.op)
                        ELSE IF k = "body"
                        THEN Container(BodyClass(cls),
                                       [i \in DOMAIN h[x.id].items |-> Obj(h, h[x.id].items[i])])
                        ELSE IF x.t # "node" /\ k \in DOMAIN x THEN x[k]
                        ELSE IF k \in {"channel", "channels"} THEN ToString(x.nch)
                        ELSE IF FieldNamed(fields, k).default = Undefined THEN Given
                        ELSE FieldNamed(fields, k).default]]

\* The rel_time values: "0" is the literal 0 or RelTime(0), which is zero
\* seconds; "0ns" is the dictionary {"ns": 0}, which validation turns into
\* RelTime(ns=0); "5ns" is RelTime(ns=5)
ZeroTimes == {"0", "0ns"}

\* WrappedValueOrZeroModel: a time serializes as {unit: value}
Time_dump(t) ==
    CASE t = "0"   -> JDict([s |-> JStr("0.0")])
      [] t = "0ns" -> JDict([ns |-> JStr("0")])
      [] t = "5ns" -> JDict([ns |-> JStr("5")])

Time_validate(data) ==
    IF data.j = "dict" /\ DOMAIN data.v = {"s"} /\ data.v["s"] = JStr("0.0") THEN "0"
    ELSE IF data.j = "dict" /\ DOMAIN data.v = {"ns"} /\ data.v["ns"] = JStr("0") THEN "0ns"
    ELSE IF data.j = "dict" /\ DOMAIN data.v = {"ns"} /\ data.v["ns"] = JStr("5") THEN "5ns"
    ELSE Undefined

\* model_dump.  A container serializes as the list of its items
\* (SequenceBase._wrap_serializer); every other object as the dictionary of
\* its fields without those equal to their default
\* (LeanModel._wrap_serializer)
RECURSIVE model_dump(_)
model_dump(o) ==
    IF o.cls \in {"OpSequence", "Schedule"}
    THEN JList([i \in DOMAIN o.f.items |-> model_dump(o.f.items[i])])
    ELSE JDict([k \in {n \in DOMAIN o.f : ~is_eq(o.f[n], _default_value_of(o.cls, n))} |->
                    IF k \in {"op", "body"} THEN model_dump(o.f[k])
                    ELSE IF o.f[k] = None THEN JNull
                    ELSE IF k = "rel_time" THEN Time_dump(o.f[k])
                    ELSE JStr(o.f[k])])

\* What validation gives when the data is rejected
Invalid == [cls |-> "ValidationError", f |-> <<>>]

\* The class the discriminator op_type selects among the members of
\* DiscriminableOp (in an OpSequence) or DiscriminableSchedulableOp
DiscriminatedClass(T, op_type) ==
    CASE op_type = "repeat" -> IF T = "Schedulable" THEN "SchedRepetition" ELSE "Repetition"
      [] op_type = "for"    -> IF T = "Schedulable" THEN "SchedIteration" ELSE "Iteration"
      [] op_type = "if"     -> IF T = "Schedulable" THEN "SchedConditional" ELSE "Conditional"
      [] OTHER -> op_type

OpTypes == {"play", "wait", "barrier", "set_frequency", "shift_frequency", "set_phase",
            "shift_phase", "record", "var_decl", "discriminate", "store",
            "repeat", "for", "if"}

\* model_validate of data against the type T: a container class, the item
\* type of a container (OpSequenceItem, ScheduledOperation), the type of
\* the op field (Schedulable), or a class with fields
RECURSIVE model_validate(_, _)
model_validate(T, data) ==
    CASE T \in {"OpSequence", "Schedule"} ->
            \* SequenceBase._wrap_validator: a list is the items
            LET item_type == IF T = "Schedule" THEN "ScheduledOperation" ELSE "OpSequenceItem"
                raw       == IF data.j = "list" THEN data
                             ELSE IF data.j = "dict" /\ DOMAIN data.v = {"items"} THEN data.v["items"]
                             ELSE JNull
                items     == [i \in DOMAIN raw.v |-> model_validate(item_type, raw.v[i])]
            IN  IF raw.j # "list" THEN Invalid
                ELSE IF \E i \in DOMAIN items : items[i] = Invalid THEN Invalid
                ELSE Container(T, items)
      [] T \in {"OpSequenceItem", "Schedulable"} ->
            \* the union of the discriminated operations and the container
            IF data.j = "dict" /\ "op_type" \in DOMAIN data.v /\ data.v["op_type"].j = "str"
                 /\ data.v["op_type"].v \in OpTypes
            THEN model_validate(DiscriminatedClass(T, data.v["op_type"].v), data)
            ELSE model_validate(IF T = "Schedulable" THEN "Schedule" ELSE "OpSequence", data)
      [] OTHER ->
            LET fields   == model_fields(T)
                required == {n \in FieldNames(fields) : FieldNamed(fields, n).default = Undefined}
                f == [k \in FieldNames(fields) |->
                        IF data.j # "dict" \/ k \notin DOMAIN data.v THEN FieldNamed(fields, k).default
                        ELSE IF k = "op" THEN model_validate("Schedulable", data.v[k])
                        ELSE IF k = "body" THEN model_validate(BodyClass(T), data.v[k])
                        ELSE IF data.v[k].j = "null" THEN None
                        ELSE IF k = "rel_time" THEN Time_validate(data.v[k])
                        ELSE IF data.v[k].j = "str" THEN data.v[k].v
                        ELSE Undefined]
            IN  IF data.j # "dict" THEN Invalid
                ELSE IF ~(DOMAIN data.v \subseteq FieldNames(fields)) THEN Invalid
                ELSE IF ~(required \subseteq DOMAIN data.v) THEN Invalid
                ELSE IF \E k \in DOMAIN f \cap {"op", "body"} : f[k] = Invalid THEN Invalid
                ELSE IF \E k \in DOMAIN f \ {"op", "body"} : f[k] = Undefined THEN Invalid
                ELSE [cls |-> T, f |-> f]

\* Schedule.add_op(op, **data) on the schedule id: the wrapper is constructed
\* from the arguments as they are, appended and returned.  The operation is
\* a leaf object, or a container the caller has just constructed
Schedule_add_op(s, id, op, data) ==
    IF op.t = "new" /\ op.kind \notin SchedKinds THEN Raise(s, "ValidationError")
    ELSE IF ~ValidScheduledOperation(data) THEN Raise(s, "ValidationError")
    ELSE IF op.t = "new"
    THEN Return(AppendItem(Alloc(s, op.id, op.kind), id, ScheduledOperation(Node(op.id), data)),
                Str(FieldOf(data, "name")))
    ELSE Return(AppendItem(s, id, ScheduledOperation(op, data)), Str(FieldOf(data, "name")))

\* The arguments of an Iteration as the field validation leaves them.  var is
\* one variable or a list of n; items is one iterable (a Range, a LinSpace,
\* an array) or a Python list whose entries are all strings (which is one
\* iterable, a list[str]) or all iterables; len is the len() of an entry
OneVar == [list |-> FALSE, n |-> 1]
VarList(n) == [list |-> TRUE, n |-> n]
Iterable(len) == [str |-> FALSE, len |-> len]
OneIterable(len) == [list |-> FALSE, entries |-> <<Iterable(len)>>]
StrList(n) == [list |-> TRUE, entries |-> [i \in 1..n |-> [str |-> TRUE, len |-> 1]]]
IterableList(lens) == [list |-> TRUE, entries |-> [i \in DOMAIN lens |-> Iterable(lens[i])]]

_validate_vars_vs_items_counts_only(var, items) ==
    IF var.list
    THEN IF ~items.list \/ \A i \in DOMAIN items.entries : items.entries[i].str THEN "ValueError"
         ELSE IF var.n # Len(items.entries) THEN "ValueError"
         ELSE "none"
    ELSE IF items.list /\ ~(\A i \in DOMAIN items.entries : items.entries[i].str)
         THEN "ValueError"
         ELSE "none"

\* IterationBase._validate_vars_vs_items: the error it raises, if any
_validate_vars_vs_items(var, items) ==
    IF var.list
    THEN IF ~items.list \/ \A i \in DOMAIN items.entries : items.entries[i].str THEN "ValueError"
         ELSE IF var.n # Len(items.entries) THEN "ValueError"
         ELSE LET lengths == [i \in DOMAIN items.entries |-> items.entries[i].len]
              IN  IF ~(\A i \in 2..Len(lengths) : lengths[i] = lengths[1]) THEN "ValueError"
                  ELSE "none"
    ELSE IF items.list /\ ~(\A i \in DOMAIN items.entries : items.entries[i].str)
         THEN "ValueError"
         ELSE "none"

\* Iteration(var=..., items=..., body=...) or SchedIteration(...): pydantic
\* reports the ValueError of the validator as a ValidationError
Iteration_init(s, var, items) ==
    IF _validate_vars_vs_items(var, items) # "none" THEN Raise(s, "ValidationError") ELSE s

----------------------------------------------------------------------------
(* visitor/base.py: BaseVisitor, SequenceVisitor, ScheduleVisitor.  The     *)
(* visitor is a concrete one whose generic_visit records the node it is     *)
(* given; a visit is the sequence of nodes recorded, each with the place    *)
(* (container, index) of the item through which it was reached.             *)

\* The class of the object under x
ClassOf(h, x) ==
    IF x.t = "sched" THEN "ScheduledOperation"
    ELSE IF x.t = "leaf" THEN x.op_type
    ELSE h[x.id].kind

\* The visit_<Class> methods of BaseVisitor, by the op_type of the class
LeafMethods == {"play", "wait", "barrier", "set_frequency", "shift_frequency", "set_phase",
                "shift_phase", "record", "trace", "dc_comp", "var_decl", "pulse_decl",
                "discriminate", "store"}

\* The classes for which the visitor has a visit_<Class> method
VisitMethods(visitor) ==
    LeafMethods \cup (IF visitor = "SequenceVisitor" THEN SeqKinds
                      ELSE SchedKinds \cup {"ScheduledOperation"})

generic_visit(x, pos) == <<[node |-> x, pos |-> pos]>>

\* What a visit records when it fails on a node
VisitError(e, pos) == <<[node |-> [t |-> e], pos |-> pos]>>

RECURSIVE Flatten(_)
Flatten(results) == IF results = <<>> THEN <<>> ELSE Head(results) \o Flatten(Tail(results))

visit_without_descent(visitor, h, x, pos) == generic_visit(x, pos)

\* visit: dispatch on the class name, generic_visit when the visitor has no
\* method of that name.  visit_OpSequence visits every item, visit_Schedule
\* calls visit_ScheduledOperation on every item, which visits its op; the
\* control-flow methods visit the body as a container; every combine_*
\* method but combine_scheduled_operation ends in generic_visit(node)
RECURSIVE visit(_, _, _, _)
visit(visitor, h, x, pos) ==
    LET cls == ClassOf(h, x)
        body == IF cls \in SeqKinds
                THEN Flatten([i \in DOMAIN h[x.id].items |->
                                visit(visitor, h, h[x.id].items[i], <<x.id, i>>)])
                ELSE Flatten([i \in DOMAIN h[x.id].items |->
                                IF h[x.id].items[i].t = "sched"
                                THEN visit(visitor, h, h[x.id].items[i].op, <<x.id, i>>)
                                ELSE VisitError("AttributeError", <<x.id, i>>)])
    IN  IF cls \notin VisitMethods(visitor) THEN generic_visit(x, pos)
        ELSE IF x.t = "leaf" THEN generic_visit(x, pos)
        ELSE IF x.t = "sched" THEN visit(visitor, h, x.op, pos)
        ELSE IF cls \in {"OpSequence", "Schedule"} THEN body \o generic_visit(x, pos)
        ELSE body \o generic_visit([t |-> "body", id |-> x.id], pos) \o generic_visit(x, pos)

----------------------------------------------------------------------------
(* The calling program: it makes one builder call at a time, nests          *)
(* with-blocks, may raise inside a with-block, may catch an exception, and  *)
(* between two constructions may drop the finished tree.                    *)

\* The builder state as a call finds it
Cur == [stack |-> context_stack, heap |-> heap, ctr |-> op_counter,
        unc |-> unconsumed_blocks, auto |-> auto_names,
        exc |-> "none", ret |-> NoToken, report |-> <<>>]

NoCall == [fn |-> "none", nch |-> 0, params |-> <<>>, block |-> 0, new_id |-> 0,
           body |-> "none", bad |-> "none", frame |-> <<>>, pending |-> "none", exc |-> "none", ret |-> NoToken,
           report |-> <<>>, result |-> <<>>, flow |-> 0]

CallOf(fn, nch, params, block, new_id, frame) ==
    [fn |-> fn, nch |-> nch, params |-> params, block |-> block, new_id |-> new_id,
     body |-> "none", bad |-> "none", frame |-> frame, pending |-> exc, exc |-> "none", ret |-> NoToken,
     report |-> <<>>, result |-> <<>>, flow |-> 0]

RECURSIVE SumLen(_, _)
SumLen(h, ids) ==
    IF ids = {} THEN 0
    ELSE LET id == Min(ids) IN Len(h[id].items) + SumLen(h, ids \ {id})

\* The number of items in all live containers
TotalItems == SumLen(heap, DOMAIN heap)

\* The program makes an appending call only while the tree holds fewer than
\* MaxItems items and the counter is below MaxCounter
Room == TotalItems < MaxItems /\ op_counter < MaxCounter

\* The state after a call is the state the call computed
Commit(s, c) ==
    /\ context_stack' = s.stack
    /\ heap' = s.heap
    /\ op_counter' = s.ctr
    /\ unconsumed_blocks' = s.unc
    /\ auto_names' = s.auto
    /\ exc' = s.exc
    /\ last' = [c EXCEPT !.exc = s.exc, !.ret = s.ret, !.report = s.report]
    /\ pre' = Cur

\* id() of a newly constructed container: an address no live object has.
\* Addresses that carry no registry entry are all alike (the least one
\* stands for them); an address of a dead object whose registry entry was
\* never deleted is a different case.  A new construction starts only after
\* the previous tree was dropped.
NewIds ==
    LET free  == (1..MaxObjs) \ DOMAIN heap
        stale == free \cap DOMAIN unconsumed_blocks
        clean == free \ stale
    IN  IF context_stack = <<>> /\ heap # <<>> THEN {}
        ELSE stale \cup (IF clean = {} THEN {} ELSE {Min(clean)})

\* A call that raises before it constructs its container constructs none
\* (0 stands for no object)
IdsUnless(refused) == IF refused THEN {0} ELSE NewIds

\* The wrappers of leaf operations in the live containers: the program holds
\* the token each of them returned
LeafWrappers ==
    UNION {{heap[id].items[i] : i \in {j \in 1..Len(heap[id].items) :
                heap[id].items[j].t = "sched" /\ heap[id].items[j].op.t = "leaf"}}
           : id \in DOMAIN heap}

TokensHeld == {OperationToken(w.name) : w \in LeafWrappers}

FullParams == [name |-> "init", ref_op |-> Str("op_1"), ref_pt |-> "end",
               ref_pt_new |-> "center", rel_time |-> "5ns"]

\* The schedule parameters the program passes
ParamChoices ==
    {<<>>, [name |-> "init"], [name |-> None], [name |-> "op_2"],
     [rel_time |-> "0"], FullParams}
    \cup {[ref_op |-> r, ref_pt |-> "end", rel_time |-> "5ns"] :
            r \in TokensHeld \cup {Str(tk.name) : tk \in TokensHeld}}

\* Under a schedule-flavored scope a leaf call is given any of them; elsewhere
\* it is given none or all of them
LeafParams ==
    IF context_stack # <<>> /\ IsScheduleLike(Cur)
    THEN ParamChoices
    ELSE {<<>>, FullParams}

\* The schedule parameters given to a scope-opening call: none, or all of
\* them where they are used
ScopeParams ==
    IF context_stack # <<>> /\ IsScheduleLike(Cur) THEN {<<>>, FullParams} ELSE {<<>>}

\* The timing parameters given to add_block
BlockParams ==
    IF context_stack # <<>> /\ IsSchedule(Cur)
    THEN {<<>>, [name |-> "init"], [name |-> None], FullParams}
    ELSE {<<>>}

FrameOf(opener, new_id) ==
    [opener |-> opener, sched_id |-> new_id, entry_stack |-> context_stack,
     created |-> {}]

\* An opening call: when it returned, its with-block is open
Open(s, opener, params, new_id) ==
    /\ Commit(s, CallOf(opener, 0, params, 0, new_id, <<>>))
    /\ frames' = IF s.exc = "none" THEN Append(frames, FrameOf(opener, new_id)) ELSE frames

TopFrame == frames[Len(frames)]

Init ==
    /\ context_stack = <<>>
    /\ heap = <<>>
    /\ op_counter = 0
    /\ unconsumed_blocks = <<>>
    /\ blocks = <<>>
    /\ auto_names = {}
    /\ frames = <<>>
    /\ exc = "none"
    /\ last = NoCall
    /\ pre = Cur

\* A leaf-emitting call with schedule parameters
Leaf(fn, nch, params) ==
    /\ exc = "none"
    /\ Room
    /\ Commit(LeafCall(fn, Cur, nch, params), CallOf(fn, nch, params, 0, 0, <<>>))
    /\ UNCHANGED <<blocks, frames>>

\* with build_sequence():
BuildSequence(new_id) ==
    /\ exc = "none"
    /\ Open(build_sequence_enter(Cur, new_id), "build_sequence", <<>>, new_id)
    /\ UNCHANGED blocks

\* with sub_sequence():
SubSequence(new_id) ==
    /\ exc = "none"
    /\ Room
    /\ Open(sub_sequence_enter(Cur, new_id), "sub_sequence", <<>>, new_id)
    /\ UNCHANGED blocks

\* with build_schedule():
BuildSchedule(new_id) ==
    /\ exc = "none"
    /\ Open(build_schedule_enter(Cur, new_id), "build_schedule", <<>>, new_id)
    /\ UNCHANGED blocks

\* with sub_schedule(**params):
SubSchedule(new_id, params) ==
    /\ exc = "none"
    /\ Room
    /\ Open(sub_schedule_enter(Cur, new_id, params), "sub_schedule", params, new_id)
    /\ UNCHANGED blocks

\* with repeat(count, **params):
Repeat(new_id, params) ==
    /\ exc = "none"
    /\ Room
    /\ Open(repeat_enter(Cur, new_id, params), "repeat", params, new_id)
    /\ UNCHANGED blocks

\* with for_(var, items, **params):
For(new_id, params) ==
    /\ exc = "none"
    /\ Room
    /\ Open(for_enter(Cur, new_id, params), "for_", params, new_id)
    /\ UNCHANGED blocks

\* with if_(var, **params):
If(new_id, params) ==
    /\ exc = "none"
    /\ Room
    /\ Open(if_enter(Cur, new_id, params), "if_", params, new_id)
    /\ UNCHANGED blocks

\* with measure_and_discriminate_and_if_(..., **params):
MeasureAndDiscriminateAndIf(new_id, params) ==
    /\ exc = "none"
    /\ Room
    /\ Open(measure_and_discriminate_and_if_enter(Cur, new_id, params), "measure_and_discriminate_and_if_", params, new_id)
    /\ UNCHANGED blocks

\* The innermost with-block is left, normally or by the pending exception:
\* the finally clause of a build_schedule or sub_schedule
ExitSchedule ==
    /\ frames # <<>>
    /\ TopFrame.opener \in {"build_schedule", "sub_schedule"}
    /\ Commit(schedule_exit([Cur EXCEPT !.exc = exc], TopFrame.sched_id),
              CallOf("exit", 0, <<>>, 0, 0, TopFrame))
    /\ frames' = SubSeq(frames, 1, Len(frames) - 1)
    /\ UNCHANGED blocks

\* The innermost with-block is left, normally or by the pending exception:
\* the finally clause of the other context managers
ExitOther ==
    /\ frames # <<>>
    /\ TopFrame.opener \notin {"build_schedule", "sub_schedule"}
    /\ Commit(pop_context([Cur EXCEPT !.exc = exc]), CallOf("exit", 0, <<>>, 0, 0, TopFrame))
    /\ frames' = SubSeq(frames, 1, Len(frames) - 1)
    /\ UNCHANGED blocks

\* A function decorated with nested_schedule is called
CreateBlock(body) ==
    /\ exc = "none"
    /\ Len(blocks) < MaxBlocks
    /\ LET b == Len(blocks) + 1
       IN  /\ Commit(ScheduleBlock_init(Cur, b),
                     [CallOf("nested_schedule", 0, <<>>, b, 0, <<>>) EXCEPT !.body = body])
           /\ blocks' = IF exc' = "none"
                        THEN Append(blocks, [body |-> body, passed |-> FALSE, added |-> FALSE,
                                             at |-> IF context_stack = <<>> THEN 0
                                                    ELSE Len(heap[Top(Cur)].items)])
                        ELSE blocks
           /\ frames' = IF exc' = "none" /\ frames # <<>>
                        THEN [frames EXCEPT ![Len(frames)].created = @ \cup {b}]
                        ELSE frames

\* add_block(block, **params) with a block created earlier
AddBlock(b, new_id, params) ==
    /\ exc = "none"
    /\ Room
    /\ Commit(add_block(Cur, b, blocks[b].body, new_id, params),
              [CallOf("add_block", 0, params, b, new_id, <<>>) EXCEPT !.body = blocks[b].body])
    /\ blocks' = [blocks EXCEPT ![b].passed = TRUE, ![b].added = @ \/ exc' = "none"]
    /\ UNCHANGED frames

\* A leaf-emitting or scope-opening call whose argument bad is malformed
Malformed(fn, nch, params, bad) ==
    /\ exc = "none"
    /\ Room
    /\ Commit(MalformedCall(fn, Cur, nch, params, bad),
              [CallOf(fn, nch, params, 0, 0, <<>>) EXCEPT !.bad = bad])
    /\ UNCHANGED <<blocks, frames>>

\* A function decorated with nested_sequence is called
NestedSequence(body, new_id) ==
    /\ exc = "none"
    /\ Room
    /\ Commit(nested_sequence(Cur, body, new_id),
              [CallOf("nested_sequence", 0, <<>>, 0, new_id, <<>>) EXCEPT !.body = body])
    /\ UNCHANGED <<blocks, frames>>

\* The body of the innermost with-block raises an exception of its own
BodyRaises ==
    /\ exc = "none"
    /\ frames # <<>>
    /\ exc' = "UserError"
    /\ UNCHANGED <<context_stack, heap, op_counter, unconsumed_blocks, blocks, auto_names,
                   frames, last, pre>>

\* The program catches the pending exception where it is
Catch ==
    /\ exc # "none"
    /\ exc' = "none"
    /\ UNCHANGED <<context_stack, heap, op_counter, unconsumed_blocks, blocks, auto_names,
                   frames, last, pre>>

\* Between two constructions the program drops the tree it built; nothing
\* else refers to the containers, so they are freed (and the place where a
\* block was created is gone)
Drop ==
    /\ exc = "none"
    /\ frames = <<>>
    /\ context_stack = <<>>
    /\ heap # <<>>
    /\ heap' = <<>>
    /\ last' = NoCall
    /\ pre' = [Cur EXCEPT !.heap = <<>>]
    /\ blocks' = [b \in DOMAIN blocks |-> [blocks[b] EXCEPT !.at = 0]]
    /\ UNCHANGED <<context_stack, op_counter, unconsumed_blocks, auto_names, frames, exc>>

\* The timing arguments given to Schedule.add_op: for the first item of the
\* tree any subset of them or a rel_time of zero (in either form), for a
\* later item none, a rel_time of zero or all of them
AddOpData ==
    IF TotalItems = 0
    THEN {[k \in S |-> FullParams[k]] : S \in SUBSET DOMAIN FullParams}
         \cup {[rel_time |-> "0"], [rel_time |-> "0ns"], [name |-> "init", rel_time |-> "0"]}
    ELSE {<<>>, [rel_time |-> "0"], [rel_time |-> "0ns"], FullParams}

\* The operations given to Schedule.add_op: a Play, a Play with a condition,
\* a Record with a time of flight, a new empty Schedule, a new empty
\* OpSequence
AddOpOps(new_id) ==
    {Op("play", 1), Op("play", 1) @@ [cond |-> "flag"],
     Op("record", 1) @@ [time_of_flight |-> "5ns"]}
    \cup (IF new_id = 0 THEN {}
          ELSE {[t |-> "new", kind |-> "Schedule", id |-> new_id],
                [t |-> "new", kind |-> "OpSequence", id |-> new_id]})

\* The program calls add_op on a schedule it holds (a Schedule, or the body
\* of a schedule-flavored control-flow object)
ScheduleAddOp(id, op, data) ==
    /\ exc = "none"
    /\ Room
    /\ heap[id].kind \in SchedKinds
    /\ Commit(Schedule_add_op(Cur, id, op, data),
              [CallOf("Schedule.add_op", 0, data, 0, id, <<>>) EXCEPT !.body = op])
    /\ UNCHANGED <<blocks, frames>>

MaxVars == 2
IterLens == {3, 4, 5}

VarChoices == {OneVar} \cup {VarList(n) : n \in 0..MaxVars}

ItemsChoices ==
    {OneIterable(len) : len \in IterLens}
    \cup {StrList(n) : n \in 0..MaxVars}
    \cup {IterableList(<<a>>) : a \in IterLens}
    \cup {IterableList(<<a, b>>) : a \in IterLens, b \in IterLens}

\* The program constructs an Iteration or a SchedIteration (and keeps it
\* out of the tree)
ConstructIteration(cls, var, items) ==
    /\ exc = "none"
    /\ Commit(Iteration_init(Cur, var, items),
              [CallOf(cls, 0, [var |-> var, items |-> items], 0, 0, <<>>) EXCEPT !.body = "none"])
    /\ UNCHANGED <<blocks, frames>>

\* The program visits the container id with a visitor
VisitRoot(visitor, id) ==
    /\ exc = "none"
    /\ Commit(Cur, [CallOf("visit", 0, [visitor |-> visitor], 0, id, <<>>)
                        EXCEPT !.result = visit(visitor, heap, Node(id), <<0, 0>>)])
    /\ UNCHANGED <<blocks, frames>>

\* A leaf-emitting call made inside a with-block whose container has room,
\* however many items the containers around it hold
EmitInBody(fn) ==
    /\ exc = "none"
    /\ context_stack # <<>>
    /\ Len(heap[Top(Cur)].items) < MaxItems
    /\ op_counter < MaxCounter
    /\ Commit(LeafCall(fn, Cur, 1, <<>>), CallOf(fn, 1, <<>>, 0, 0, <<>>))
    /\ UNCHANGED <<blocks, frames>>

\* Two construction flows (threads, coroutines) make their calls on the one
\* module state, one whole call at a time; each has its own with-blocks.
\* Flow 1 is a program that plays, flow 2 one that records.
Flows == {1, 2}
FlowLeafFn(f) == IF f = 1 THEN "play" ELSE "record"

\* The innermost open with-block of the flow f
InnermostOf(f) == CHOOSE i \in DOMAIN frames :
                    /\ frames[i].flow = f
                    /\ \A j \in DOMAIN frames : frames[j].flow = f => j <= i

\* The flow f enters a with-block of a sequence-flavored context manager
FlowOpen(f, opener, new_id) ==
    /\ exc = "none"
    /\ opener = "build_sequence" \/ Room
    /\ LET s == CASE opener = "build_sequence" -> build_sequence_enter(Cur, new_id)
                   [] opener = "sub_sequence"   -> sub_sequence_enter(Cur, new_id)
                   [] opener = "repeat"         -> repeat_enter(Cur, new_id, <<>>)
       IN  /\ Commit(s, [CallOf(opener, 0, <<>>, 0, new_id, <<>>) EXCEPT !.flow = f])
           /\ frames' = IF s.exc = "none"
                        THEN Append(frames, [flow |-> f] @@ FrameOf(opener, new_id))
                        ELSE frames
    /\ UNCHANGED blocks

\* The flow f emits its leaf operation
FlowLeaf(f) ==
    /\ exc = "none"
    /\ Room
    /\ Commit(LeafCall(FlowLeafFn(f), Cur, 1, <<>>),
              [CallOf(FlowLeafFn(f), 1, <<>>, 0, 0, <<>>) EXCEPT !.flow = f])
    /\ UNCHANGED <<blocks, frames>>

\* The flow f leaves its innermost with-block: the finally clause of the
\* context manager that opened it runs
FlowExit(f) ==
    /\ exc = "none"
    /\ \E i \in DOMAIN frames : frames[i].flow = f
    /\ LET i == InnermostOf(f)
       IN  /\ Commit(pop_context(Cur), [CallOf("exit", 0, <<>>, 0, 0, frames[i]) EXCEPT !.flow = f])
           /\ frames' = [j \in 1..(Len(frames) - 1) |-> IF j < i THEN frames[j] ELSE frames[j + 1]]
    /\ UNCHANGED blocks

\* The scope-opening calls
OpenScope ==
    \/ \E new_id \in NewIds : BuildSequence(new_id)
    \/ \E new_id \in IdsUnless(NoContext(Cur) \/ ~IsSequenceLike(Cur)) : SubSequence(new_id)
    \/ \E new_id \in NewIds : BuildSchedule(new_id)
    \/ \E new_id \in IdsUnless(NoContext(Cur) \/ ~IsSchedule(Cur)) :
            \E params \in ScopeParams : SubSchedule(new_id, params)
    \/ \E new_id \in NewIds : \E params \in ScopeParams : Repeat(new_id, params)
    \/ \E new_id \in NewIds : \E params \in ScopeParams : For(new_id, params)
    \/ \E new_id \in NewIds : \E params \in ScopeParams : If(new_id, params)
    \/ \E new_id \in NewIds : \E params \in ScopeParams : MeasureAndDiscriminateAndIf(new_id, params)

\* The scope-closing steps
CloseScope ==
    \/ ExitSchedule
    \/ ExitOther

\* The construction of one tree: scopes, blocks and exceptions, with play as
\* the leaf inside a scope and every leaf-emitting call outside of all scopes
Next ==
    \/ OpenScope
    \/ CloseScope
    \/ \E params \in {<<>>, [name |-> "init"]} : Leaf("play", 1, params)
    \/ \E fn \in LeafFns \cup {"barrier", "var_decl"} :
            context_stack = <<>> /\ Leaf(fn, 1, <<>>)
    \/ \E body \in BodyKinds : CreateBlock(body)
    \/ \E body \in BodyKinds : \E new_id \in IdsUnless(NoContext(Cur) \/ ~IsSequenceLike(Cur)) :
            NestedSequence(body, new_id)
    \/ \E b \in 1..Len(blocks) : \E new_id \in IdsUnless(NoContext(Cur) \/ ~IsSchedule(Cur)) :
            \E params \in BlockParams : AddBlock(b, new_id, params)
    \/ BodyRaises
    \/ Catch

Spec == Init /\ [][Next]_vars

\* One construction after another in the same process: the trees built
\* earlier are dropped and the ids of their containers are given out again
NextReuse ==
    \/ OpenScope
    \/ CloseScope
    \/ CreateBlock("play")
    \/ \E b \in 1..Len(blocks) : \E new_id \in IdsUnless(NoContext(Cur) \/ ~IsSchedule(Cur)) :
            \E params \in ScopeParams : AddBlock(b, new_id, params)
    \/ Catch
    \/ Drop

SpecReuse == Init /\ [][NextReuse]_vars

\* Every leaf-emitting call with every choice of parameters, under every
\* kind of scope
NextLeaf ==
    \/ OpenScope
    \/ CloseScope
    \/ \E fn \in LeafFns : \E params \in LeafParams : Leaf(fn, 1, params)
    \/ \E nch \in {2, 3} : Leaf("wait", nch, <<>>)
    \/ \E nch \in {1, 2} : Leaf("barrier", nch, <<>>)
    \/ Leaf("var_decl", 0, <<>>)
    \/ Catch

SpecLeaf == Init /\ [][NextLeaf]_vars

\* Calls with a malformed argument, under every kind of scope
NextMalformed ==
    \/ OpenScope
    \/ CloseScope
    \/ \E params \in {<<>>, [name |-> "init"]} : Leaf("play", 1, params)
    \/ \E c \in MalformedCalls : \E nch \in {1, 2} : \E params \in {<<>>, [name |-> "init"]} :
            Malformed(c[1], nch, params, c[2])
    \/ Catch

SpecMalformed == Init /\ [][NextMalformed]_vars

\* The model classes used directly, next to the builder: the program calls
\* Schedule.add_op on the schedules of the tree it builds
NextModels ==
    \/ \E new_id \in NewIds : BuildSequence(new_id)
    \/ \E new_id \in NewIds : BuildSchedule(new_id)
    \/ \E new_id \in IdsUnless(NoContext(Cur) \/ ~IsSequenceLike(Cur)) : SubSequence(new_id)
    \/ \E new_id \in NewIds : Repeat(new_id, <<>>)
    \/ \E new_id \in NewIds : For(new_id, <<>>)
    \/ \E new_id \in NewIds : If(new_id, <<>>)
    \/ CloseScope
    \/ \E params \in {<<>>, [rel_time |-> "0"], [rel_time |-> "0ns"], FullParams} :
            Leaf("play", 1, params)
    \/ \E id \in DOMAIN heap : \E new_id \in NewIds \cup {0} :
            \E op \in AddOpOps(new_id) : \E data \in AddOpData : ScheduleAddOp(id, op, data)
    \/ Catch

SpecModels == Init /\ [][NextModels]_vars

\* The construction of iterations with every shape of var and items
NextIteration ==
    \E cls \in {"Iteration", "SchedIteration"} : \E var \in VarChoices :
        \E items \in ItemsChoices : ConstructIteration(cls, var, items)

SpecIteration == Init /\ [][NextIteration]_vars

\* Trees of both flavors are built and visited
NextVisit ==
    \/ \E new_id \in NewIds : BuildSequence(new_id)
    \/ \E new_id \in NewIds : BuildSchedule(new_id)
    \/ \E new_id \in IdsUnless(NoContext(Cur) \/ ~IsSequenceLike(Cur)) : SubSequence(new_id)
    \/ \E new_id \in IdsUnless(NoContext(Cur) \/ ~IsSchedule(Cur)) : SubSchedule(new_id, <<>>)
    \/ \E new_id \in NewIds : Repeat(new_id, <<>>)
    \/ \E new_id \in NewIds : For(new_id, <<>>)
    \/ \E new_id \in NewIds : If(new_id, <<>>)
    \/ CloseScope
    \/ \E fn \in {"play", "record"} : Leaf(fn, 1, <<>>)
    \/ \E visitor \in {"SequenceVisitor", "ScheduleVisitor"} : \E id \in DOMAIN heap :
            VisitRoot(visitor, id)
    \/ Catch

SpecVisit == Init /\ [][NextVisit]_vars

\* Sequences with measure_and_discriminate_and_if_ blocks and operations
\* emitted inside them
NextMeasureIf ==
    \/ \E new_id \in NewIds : BuildSequence(new_id)
    \/ \E new_id \in NewIds : BuildSchedule(new_id)
    \/ \E new_id \in NewIds : Repeat(new_id, <<>>)
    \/ \E new_id \in NewIds : MeasureAndDiscriminateAndIf(new_id, <<>>)
    \/ CloseScope
    \/ \E fn \in {"play", "record"} : EmitInBody(fn)
    \/ BodyRaises
    \/ Catch

SpecMeasureIf == Init /\ [][NextMeasureIf]_vars

\* Two flows interleave their calls
NextFlows ==
    \/ \E f \in Flows : \E new_id \in NewIds : FlowOpen(f, "build_sequence", new_id)
    \/ \E f \in Flows : \E new_id \in IdsUnless(NoContext(Cur) \/ ~IsSequenceLike(Cur)) :
            FlowOpen(f, "sub_sequence", new_id)
    \/ \E f \in Flows : \E new_id \in NewIds : FlowOpen(f, "repeat", new_id)
    \/ \E f \in Flows : FlowLeaf(f)
    \/ \E f \in Flows : FlowExit(f)
    \/ Catch

SpecFlows == Init /\ [][NextFlows]_vars

----------------------------------------------------------------------------
(* Scope discipline and unconsumed blocks *)

Openers == {"build_sequence", "build_schedule", "sub_sequence", "sub_schedule",
            "repeat", "for_", "if_", "measure_and_discriminate_and_if_"}

\* C1: for every scope-opening construct, when the with-block exits, normally
\* or because the body raised, the scope pushed on entry is popped exactly
\* once: the stack after the exit equals the stack before the entry, every
\* open with-block has exactly one scope on the stack, and once the
\* outermost with-block has exited the stack is empty.
C1_ScopePoppedExactlyOnce ==
    /\ (last.fn \in Openers /\ last.exc = "none") =>
            context_stack = Append(pre.stack, last.new_id)
    /\ last.fn = "exit" => context_stack = last.frame.entry_stack
    /\ Len(context_stack) = Len(frames)
    /\ frames = <<>> => context_stack = <<>>

\* A repeat block nested in another scope was left because its body raised
C1_Witness ==
    /\ last.fn = "exit"
    /\ last.frame.opener = "repeat"
    /\ last.frame.entry_stack # <<>>
    /\ last.pending = "UserError"
    /\ context_stack = last.frame.entry_stack

\* C2: closing a build_schedule scope in which N >= 1 blocks were created and
\* none was passed to add_block raises RuntimeError reporting exactly N
\* unconsumed blocks; if add_block was called on all N blocks (and returned)
\* before the close, the close raises nothing.
C2_UnconsumedBlocksReported ==
    (last.fn = "exit" /\ last.frame.opener = "build_schedule" /\ last.frame.created # {}) =>
        LET created == last.frame.created
        IN  /\ (\A b \in created : ~blocks[b].passed) =>
                    /\ last.exc = "RuntimeError"
                    /\ Len(last.report) = Cardinality(created)
            /\ (\A b \in created : blocks[b].added) =>
                    /\ last.report = <<>>
                    /\ last.exc = last.pending

\* C3: closing any schedule-like scope (build_schedule, sub_schedule, or a
\* repeat / for_ / if_ body opened under a schedule) while a block registered
\* against that scope is still in the registry raises an error.
C3_NoSilentCloseWithPending ==
    (/\ last.fn = "exit"
     /\ pre.heap[last.frame.sched_id].kind \in SchedKinds
     /\ \E b \in last.frame.created :
            \E j \in 1..Len(BlocksOf(pre.unc, last.frame.sched_id)) :
                pre.unc[last.frame.sched_id][j] = b)
    => last.exc # "none"

\* C4: when the close of a build_schedule or sub_schedule scope raises because
\* of unconsumed blocks, the scope is popped from the stack and its entry in
\* the registry is removed (the sub_schedule that add_block opens and closes
\* included).
C4_RaisingCloseStillPops ==
    /\ (last.fn = "exit" /\ last.report # <<>>) =>
            /\ context_stack = last.frame.entry_stack
            /\ \A i \in 1..Len(context_stack) : context_stack[i] # last.frame.sched_id
            /\ last.frame.sched_id \notin DOMAIN unconsumed_blocks
    /\ (last.fn = "add_block" /\ last.report # <<>>) =>
            /\ context_stack = pre.stack
            /\ last.new_id \notin DOMAIN unconsumed_blocks

\* The close of a sub_schedule raised because of a block created in it
C4_Witness ==
    /\ last.fn = "exit"
    /\ last.frame.opener = "sub_schedule"
    /\ last.frame.created # {}
    /\ last.exc = "RuntimeError"
    /\ Len(last.report) = 1
    /\ context_stack = last.frame.entry_stack

----------------------------------------------------------------------------
(* Leaf dispatch (checked under SpecLeaf) *)

\* The scope that was on top of the stack when the last call was made
PreTop == pre.stack[Len(pre.stack)]
PreKind == pre.heap[PreTop].kind

\* The calls that emit exactly one operation
SingleLeafFns == {"play", "wait", "barrier", "set_frequency", "shift_frequency",
                  "set_phase", "shift_phase", "record", "discriminate", "store",
                  "var_decl"}

\* Those of them that take timing parameters
TimedLeafFns == SingleLeafFns \ {"barrier", "var_decl"}

LeafEmit == last.fn \in SingleLeafFns /\ pre.stack # <<>>

\* The operation object the last call built
LastOp ==
    Op(last.fn, IF last.fn \in {"wait", "barrier"} THEN last.nch
                ELSE IF last.fn \in {"discriminate", "store", "var_decl"} THEN 0
                ELSE 1)

\* The n of the auto name op_<n>
AutoN(name) == CHOOSE n \in 0..(MaxCounter + 2) : name = "op_" \o ToString(n)

IsAutoName(name) == \E n \in 0..(MaxCounter + 2) : name = "op_" \o ToString(n)

\* C5: a leaf emitted while top-of-stack is a plain Sequence is appended bare
\* (length +1, no wrapper); emitted while top-of-stack is a Schedule with no
\* name given, it is appended as one ScheduledOperation named op_<n> with n
\* strictly greater than the n of every auto name generated earlier.
C5_ScopeDispatch ==
    /\ (LeafEmit /\ PreKind = "OpSequence") =>
            /\ last.exc = "none"
            /\ heap = [pre.heap EXCEPT ![PreTop].items = Append(@, LastOp)]
    /\ (LeafEmit /\ last.fn \in TimedLeafFns /\ (last.fn = "wait" => last.nch = 1)
            /\ PreKind = "Schedule" /\ "name" \notin DOMAIN last.params) =>
            /\ last.exc = "none"
            /\ Len(heap[PreTop].items) = Len(pre.heap[PreTop].items) + 1
            /\ LET w == Last(heap[PreTop].items)
               IN  /\ w.t = "sched"
                   /\ w.op = LastOp
                   /\ IsAutoName(w.name)
                   /\ \A earlier \in pre.auto : AutoN(w.name) > AutoN(earlier)

\* A play without a name under a Schedule, after an auto name was generated
C5_Witness ==
    /\ last.fn = "play"
    /\ pre.stack # <<>>
    /\ PreKind = "Schedule"
    /\ last.params = <<>>
    /\ pre.auto # {}
    /\ last.exc = "none"
    /\ Last(heap[PreTop].items).name = "op_2"

\* The state s with its top-of-stack container made a plain Schedule
AsSchedule(s) == [s EXCEPT !.heap[Top(s)].kind = "Schedule"]

\* C6: every leaf-emitting call with timing parameters, made while
\* top-of-stack is a SchedRepetition, SchedIteration or SchedConditional,
\* appends to that body exactly the ScheduledOperation it appends under a
\* plain Schedule.
C6_SchedBodiesWrapLikeSchedule ==
    (LeafEmit /\ last.fn \in TimedLeafFns /\ (last.fn = "wait" => last.nch = 1)
        /\ PreKind \in SchedBodyKinds) =>
        LET expected == LeafCall(last.fn, AsSchedule(pre), last.nch, last.params)
        IN  /\ last.exc = expected.exc
            /\ heap[PreTop].items = expected.heap[PreTop].items

\* C7: a call given a token as ref_op does exactly what the same call given
\* the token's name string does (the same wrapper with the same ref_op and
\* the same other timing fields, the same result), and the wrapper a
\* single-leaf call appends has the token's name as its ref_op.
C7_TokenSubstitution ==
    (last.fn \in LeafFns /\ pre.stack # <<>> /\ "ref_op" \in DOMAIN last.params
        /\ last.params["ref_op"].tok) =>
        LET by_name == LeafCall(last.fn, pre, last.nch,
                                [last.params EXCEPT !["ref_op"] = Str(@.name)])
        IN  /\ last.exc = by_name.exc
            /\ last.ret = by_name.ret
            /\ heap = by_name.heap
            /\ op_counter = by_name.ctr
            /\ (last.fn \in TimedLeafFns /\ PreKind = "Schedule") =>
                    /\ last.exc = "none"
                    /\ Last(heap[PreTop].items).ref_op = last.params["ref_op"].name

\* A play that was given a token as ref_op
C7_Witness ==
    /\ last.fn = "play"
    /\ "ref_op" \in DOMAIN last.params
    /\ last.params["ref_op"].tok
    /\ last.exc = "none"
    /\ Last(heap[PreTop].items).ref_op = "op_1"
    /\ Last(heap[PreTop].items).ref_pt = "end"

\* C8: a leaf emit that succeeds while top-of-stack is schedule-like returns
\* a token whose name is the name of the wrapper just appended (the given
\* name, or else the name just generated); while top-of-stack is
\* sequence-like it returns None.
C8_TokenNamesWrapper ==
    (LeafEmit /\ last.exc = "none") =>
        /\ PreKind \in SchedKinds =>
                /\ last.ret.tok
                /\ last.ret.name = Last(heap[PreTop].items).name
                /\ IF "name" \in DOMAIN last.params
                   THEN last.ret.name = last.params["name"]
                   ELSE last.ret.name \in auto_names \ pre.auto
        /\ PreKind \in SeqKinds => last.ret = NoToken

\* A play under a SchedRepetition returned the token of a generated name
C8_Witness ==
    /\ last.fn = "play"
    /\ pre.stack # <<>>
    /\ PreKind = "SchedRepetition"
    /\ last.exc = "none"
    /\ last.params = <<>>
    /\ last.ret.tok
    /\ last.ret.name = Last(heap[PreTop].items).name

\* C9: wait with two or more channels appends one Wait recording all the
\* channels while top-of-stack is sequence-like; while top-of-stack is
\* schedule-flavored it raises RuntimeError and appends nothing.
C9_MultiChannelWait ==
    (last.fn = "wait" /\ last.nch >= 2 /\ pre.stack # <<>>) =>
        /\ PreKind \in SeqKinds =>
                /\ last.exc = "none"
                /\ heap = [pre.heap EXCEPT ![PreTop].items = Append(@, Op("wait", last.nch))]
        /\ PreKind \in SchedKinds =>
                /\ last.exc = "RuntimeError"
                /\ heap = pre.heap

\* A wait on three channels was refused under a SchedIteration
C9_Witness ==
    /\ last.fn = "wait"
    /\ last.nch = 3
    /\ pre.stack # <<>>
    /\ PreKind = "SchedIteration"
    /\ last.exc = "RuntimeError"
    /\ heap = pre.heap

\* C10: barrier called while top-of-stack is a Schedule or a Sched-flavored
\* body raises RuntimeError and leaves the item list unchanged; called while
\* top-of-stack is sequence-like it appends one Barrier.
C10_BarrierOnlyInSequences ==
    (last.fn = "barrier" /\ pre.stack # <<>>) =>
        /\ PreKind \in SchedKinds =>
                /\ last.exc = "RuntimeError"
                /\ heap = pre.heap
        /\ PreKind \in SeqKinds =>
                /\ last.exc = "none"
                /\ heap = [pre.heap EXCEPT ![PreTop].items = Append(@, Op("barrier", last.nch))]

\* A barrier was refused under a SchedConditional
C10_Witness ==
    /\ last.fn = "barrier"
    /\ pre.stack # <<>>
    /\ PreKind = "SchedConditional"
    /\ last.exc = "RuntimeError"
    /\ heap = pre.heap

----------------------------------------------------------------------------
(* Nested scopes and blocks *)

\* The last call raised RuntimeError and left the scope stack, every
\* container and the name counter as they were
Refused ==
    /\ last.exc = "RuntimeError"
    /\ context_stack = pre.stack
    /\ heap = pre.heap
    /\ op_counter = pre.ctr

\* C11: sub_sequence called with an empty stack or under a schedule-flavored
\* top, and sub_schedule or add_block called with an empty stack or under a
\* sequence-flavored top, raise RuntimeError and leave the scope stack, every
\* container and the name counter unchanged.
C11_WrongFlavorRefused ==
    /\ (last.fn = "sub_sequence" /\ (pre.stack = <<>> \/ PreKind \in SchedKinds)) => Refused
    /\ (last.fn \in {"sub_schedule", "add_block"}
            /\ (pre.stack = <<>> \/ PreKind \in SeqKinds)) => Refused

\* A sub_schedule was refused under a Repetition after a name was generated
C11_Witness ==
    /\ last.fn = "sub_schedule"
    /\ pre.stack # <<>>
    /\ PreKind = "Repetition"
    /\ pre.ctr > 0
    /\ Refused

\* C12: calling a nested_sequence-decorated function under a sequence-like
\* top-of-stack runs its body inside a new nested Sequence that is attached to
\* the enclosing scope when the call returns (and the stack is as before);
\* under a schedule-flavored top-of-stack (a Schedule, or a SchedRepetition /
\* SchedIteration / SchedConditional body) the call fails without running the
\* body.
C12_NestedSequenceOnlyInSequences ==
    (last.fn = "nested_sequence" /\ pre.stack # <<>>) =>
        /\ PreKind \in SeqKinds =>
                /\ context_stack = pre.stack
                /\ heap[PreTop].items = Append(pre.heap[PreTop].items, Node(last.new_id))
                /\ heap[last.new_id].kind = "OpSequence"
                /\ last.body = "play" =>
                        /\ last.exc = "none"
                        /\ heap[last.new_id].items = <<Op("play", 1)>>
        /\ PreKind \in SchedKinds =>
                /\ last.exc # "none"
                /\ heap = pre.heap
                /\ op_counter = pre.ctr

\* C13: calling a nested_schedule-decorated function under an open scope
\* does not run the body: no container, the scope stack and the name counter
\* are unchanged, nothing is raised, and the only effect is that the new
\* block is added, last, to the registry entry of the scope that is
\* top-of-stack at the call.
C13_BlockCreationOnlyRegisters ==
    (last.fn = "nested_schedule" /\ pre.stack # <<>>) =>
        /\ last.exc = "none"
        /\ heap = pre.heap
        /\ context_stack = pre.stack
        /\ op_counter = pre.ctr
        /\ auto_names = pre.auto
        /\ DOMAIN unconsumed_blocks = DOMAIN pre.unc \cup {PreTop}
        /\ \A k \in DOMAIN unconsumed_blocks :
                unconsumed_blocks[k] = IF k = PreTop
                                       THEN Append(BlocksOf(pre.unc, k), last.block)
                                       ELSE pre.unc[k]

\* A second block was created under a nested scope whose entry held one
C13_Witness ==
    /\ last.fn = "nested_schedule"
    /\ Len(pre.stack) = 2
    /\ last.body = "play"
    /\ last.exc = "none"
    /\ BlocksOf(pre.unc, PreTop) = <<1>>
    /\ unconsumed_blocks[PreTop] = <<1, 2>>
    /\ heap = pre.heap

\* The block b is in some list of the registry
Pending(unc, b) == \E k \in DOMAIN unc : \E j \in 1..Len(unc[k]) : unc[k][j] = b

\* C14: add_block(block, timing parameters) called under a Schedule with a
\* block whose body emits appends exactly one wrapper to that Schedule, at the
\* end of its list as it is at the call; the wrapper's op is a new nested
\* Schedule holding exactly what the body emitted, its timing fields are the
\* given parameters and its name the given or a newly generated one;
\* afterwards the block is not pending, the scope stack is as before the call
\* and no other container has changed.
C14_AddBlockAttachesBody ==
    (last.fn = "add_block" /\ pre.stack # <<>> /\ PreKind = "Schedule" /\ last.body = "play") =>
        LET w == Last(heap[PreTop].items)
        IN  /\ heap[PreTop].items = Append(pre.heap[PreTop].items, w)
            /\ w.t = "sched"
            /\ w.op = Node(last.new_id)
            /\ last.new_id \notin DOMAIN pre.heap
            /\ heap[last.new_id].kind = "Schedule"
            /\ Len(heap[last.new_id].items) = 1
            /\ heap[last.new_id].items[1].t = "sched"
            /\ heap[last.new_id].items[1].op = Op("play", 1)
            /\ w.rel_time = FieldOf(last.params, "rel_time")
            /\ w.ref_pt = FieldOf(last.params, "ref_pt")
            /\ w.ref_pt_new = FieldOf(last.params, "ref_pt_new")
            /\ w.ref_op = IF "ref_op" \in DOMAIN last.params
                          THEN last.params["ref_op"].name ELSE None
            /\ IF "name" \in DOMAIN last.params
               THEN w.name = last.params["name"]
               ELSE w.name \in auto_names \ pre.auto
            /\ ~Pending(unconsumed_blocks, last.block)
            /\ context_stack = pre.stack
            /\ \A id \in DOMAIN pre.heap \ {PreTop} : heap[id] = pre.heap[id]

\* A block created in an empty Schedule was added with all timing parameters
\* after a play had been emitted there
C14_Witness ==
    /\ last.fn = "add_block"
    /\ last.exc = "none"
    /\ pre.stack # <<>>
    /\ PreKind = "Schedule"
    /\ last.params = FullParams
    /\ blocks[last.block].at = 0
    /\ Len(pre.heap[PreTop].items) = 1
    /\ Len(heap[PreTop].items) = 2
    /\ heap[PreTop].items[2].op = Node(last.new_id)
    /\ heap[PreTop].items[2].ref_pt_new = "center"
    /\ Len(heap[last.new_id].items) = 1

\* C15: add_block that returns under a Schedule returns an operation token
\* whose name is the name of the nested-schedule wrapper it appended (the
\* given name, or the op_<n> generated in the call), so that the token given
\* as ref_op of a later call resolves to the name of that wrapper.
C15_AddBlockReturnsToken ==
    (last.fn = "add_block" /\ last.exc = "none" /\ pre.stack # <<>> /\ PreKind = "Schedule") =>
        LET w == Last(heap[PreTop].items)
        IN  /\ w.op = Node(last.new_id)
            /\ last.ret.tok
            /\ last.ret.name = w.name
            /\ IF "name" \in DOMAIN last.params
               THEN last.ret.name = last.params["name"]
               ELSE last.ret.name \in auto_names \ pre.auto
            /\ resolve_schedule_params([ref_op |-> last.ret])["ref_op"] = Str(w.name)

\* C16: with an empty scope stack, every leaf-emitting call and every call of
\* a nested_schedule-decorated function raises RuntimeError and leaves the
\* scope stack empty, the registry of pending blocks unchanged and the name
\* counter unchanged.
C16_NoScopeRefused ==
    (last.fn \in LeafFns \cup {"barrier", "var_decl", "nested_schedule"} /\ pre.stack = <<>>) =>
        /\ last.exc = "RuntimeError"
        /\ context_stack = <<>>
        /\ unconsumed_blocks = pre.unc
        /\ op_counter = pre.ctr
        /\ heap = pre.heap

\* A nested_schedule-decorated function was called outside of all scopes
\* while the registry held a block and the counter had advanced
C16_Witness ==
    /\ last.fn = "nested_schedule"
    /\ pre.stack = <<>>
    /\ pre.unc # <<>>
    /\ pre.ctr > 0
    /\ last.exc = "RuntimeError"
    /\ unconsumed_blocks = pre.unc

----------------------------------------------------------------------------
(* Control flow and the shape of the tree *)

\* The kind of node each control-flow call makes under a sequence-like and
\* under a schedule-like parent
SeqNodeOf == [repeat |-> "Repetition", for_ |-> "Iteration", if_ |-> "Conditional"]
SchedNodeOf == [repeat |-> "SchedRepetition", for_ |-> "SchedIteration",
                if_ |-> "SchedConditional"]

ControlKinds == (SeqKinds \ {"OpSequence"}) \cup SchedBodyKinds

\* The scope directly beneath the top-of-stack of the last call
PreParent == pre.stack[Len(pre.stack) - 1]

\* q is p with at least one more item at its end
StrictPrefix(p, q) == Len(p) < Len(q) /\ SubSeq(q, 1, Len(p)) = p

Contains(h, parent, child) ==
    \E j \in 1..Len(h[parent].items) :
        LET item == h[parent].items[j]
        IN  \/ item = Node(child)
            \/ (item.t = "sched" /\ item.op = Node(child))

\* C18: at every moment, each scope on the scope stack other than the bottom
\* one is contained in the container of the scope directly beneath it (every
\* scope-opening call made under a parent, build_sequence and build_schedule
\* included, has attached the new container to that parent).
C18_StackIsAPathOfTheTree ==
    \A i \in 2..Len(context_stack) :
        Contains(heap, context_stack[i - 1], context_stack[i])

\* The operations of a list of items, wrappers taken off
ItemOps(items) ==
    [i \in 1..Len(items) |-> IF items[i].t = "sched" THEN items[i].op ELSE items[i]]

\* What the last call emits into the scope that is top-of-stack, in the order
\* of its statements
Emitted ==
    CASE last.fn \in SingleLeafFns -> <<LastOp>>
      [] last.fn = "measure" -> <<Op("play", 1), Op("record", 1)>>
      [] last.fn = "measure_and_discriminate" ->
            <<Op("play", 1), Op("record", 1), Op("discriminate", 0)>>
      [] last.fn = "measure_and_discriminate_and_if_" ->
            <<Op("play", 1), Op("record", 1), Op("discriminate", 0), Node(last.new_id)>>
      [] last.fn \in {"sub_sequence", "sub_schedule", "repeat", "for_", "if_", "add_block"} ->
            <<Node(last.new_id)>>
      [] last.fn = "nested_sequence" ->
            IF PreKind \in SeqKinds THEN <<Node(last.new_id)>> ELSE <<Op("play", 1)>>
      [] OTHER -> <<>>

IsPrefix(p, q) == Len(p) <= Len(q) /\ SubSeq(q, 1, Len(p)) = p

\* C19: within one scope the order of the items is the order of the calls made
\* while that scope was top-of-stack: every call made under a scope leaves the
\* items that scope already held where they were, and when it returns, what
\* it emitted follows them at the end of the list, in the order of emission.
C19_ItemsInCallOrder ==
    (pre.stack # <<>> /\ last.fn \notin {"none", "exit"}) =>
        /\ IsPrefix(pre.heap[PreTop].items, heap[PreTop].items)
        /\ last.exc = "none" =>
                ItemOps(heap[PreTop].items) = ItemOps(pre.heap[PreTop].items) \o Emitted

\* Under a Schedule that held a set_phase, a for_ block was opened: the
\* SchedIteration follows the set_phase
C19_Witness ==
    /\ last.fn = "for_"
    /\ last.exc = "none"
    /\ pre.stack # <<>>
    /\ PreKind = "Schedule"
    /\ ItemOps(pre.heap[PreTop].items) = <<Op("set_phase", 1)>>
    /\ ItemOps(heap[PreTop].items) = <<Op("set_phase", 1), Node(last.new_id)>>

\* C20: every builder call (a scope close included) changes, of the
\* containers that existed before it, at most the one that is top-of-stack at
\* the time of the call, and that one only by appending to its item list;
\* the containers of scopes lower in the stack and of scopes already popped
\* stay exactly as they were.
C20_OnlyTopOfStackAppended ==
    last.fn # "none" =>
        \A id \in DOMAIN pre.heap :
            /\ id \in DOMAIN heap
            /\ IF pre.stack # <<>> /\ id = PreTop
               THEN /\ heap[id].kind = pre.heap[id].kind
                    /\ IsPrefix(pre.heap[id].items, heap[id].items)
               ELSE heap[id] = pre.heap[id]

\* A play inside a block: the enclosing scope, which holds the block, is as
\* it was, and the block's body has the play
C20_Witness ==
    /\ last.fn = "play"
    /\ last.exc = "none"
    /\ Len(pre.stack) = 2
    /\ pre.heap[PreParent].items # <<>>
    /\ heap[PreParent] = pre.heap[PreParent]
    /\ Len(heap[PreTop].items) = Len(pre.heap[PreTop].items) + 1

----------------------------------------------------------------------------
(* Malformed arguments (checked under SpecMalformed) *)

\* C21: a leaf-emitting or scope-opening call given a malformed value
\* (negative wait or record duration, negative repeat count, iteration
\* variables that do not match the iterables, a non-identifier channel or
\* variable name) raises during that call, before anything is appended to a
\* container or pushed on the scope stack.
C21_MalformedRaisesBeforeAnyEffect ==
    last.bad # "none" =>
        /\ last.exc # "none"
        /\ heap = pre.heap
        /\ context_stack = pre.stack

----------------------------------------------------------------------------
(* Schedules: variable declarations and control flow *)

\* C22: var_decl called while top-of-stack is a Schedule does not raise and
\* adds the variable declaration to that Schedule.
C22_VarDeclInSchedule ==
    (last.fn = "var_decl" /\ pre.stack # <<>> /\ PreKind = "Schedule") =>
        /\ last.exc = "none"
        /\ ItemOps(heap[PreTop].items) =
                ItemOps(pre.heap[PreTop].items) \o <<Op("var_decl", 0)>>

----------------------------------------------------------------------------
(* Serialization of the tree (checked under SpecModels) *)

\* The wrapper the last call appended to the container id
Appended(id) == heap[id].items[Len(heap[id].items)]

\* The last call was Schedule.add_op and it returned
AddOpReturned == last.fn = "Schedule.add_op" /\ last.exc = "none"

\* The last call was a play under a schedule-flavored scope and it appended
\* a wrapper there
PlayScheduled ==
    /\ last.fn = "play"
    /\ last.exc = "none"
    /\ pre.stack # <<>>
    /\ PreKind \in SchedKinds
    /\ Len(heap[PreTop].items) = Len(pre.heap[PreTop].items) + 1

\* C23: an omitted rel_time and a rel_time of zero stay apart in the
\* serialized wrapper: the wrapper Schedule.add_op makes serializes a rel_time
\* field exactly when it was given one, zero included; the wrapper the
\* builder makes serializes a rel_time field exactly when it was given a
\* rel_time that is not zero
C23_RelTimeZeroAndAbsent ==
    /\ AddOpReturned =>
            ("rel_time" \in DOMAIN model_dump(Obj(heap, Appended(last.new_id))).v
                <=> "rel_time" \in DOMAIN last.params)
    /\ PlayScheduled =>
            ("rel_time" \in DOMAIN model_dump(Obj(heap, Appended(PreTop))).v
                <=> ("rel_time" \in DOMAIN last.params /\ last.params["rel_time"] \notin ZeroTimes))

\* The trees: the OpSequence and Schedule objects that are alive
Roots == {id \in DOMAIN heap : heap[id].kind \in {"OpSequence", "Schedule"}}

RoundTrip(id) == model_validate(heap[id].kind, model_dump(Obj(heap, Node(id))))

\* C24: for every OpSequence or Schedule tree, nested, with either flavor of
\* repetition, iteration and conditional and with wrappers carrying any
\* subset of the timing fields, validating the serialized tree gives a tree
\* structurally equal to it
C24_RoundTrip == \A id \in Roots : RoundTrip(id) = Obj(heap, Node(id))

\* A schedule whose first wrapper has a rel_time of zero and whose second
\* wrapper holds a nested schedule-flavored container that is not empty, and
\* whose serialization leaves out the fields that were not given
C24_Witness ==
    \E id \in Roots :
        /\ heap[id].kind = "Schedule"
        /\ Len(heap[id].items) = 2
        /\ heap[id].items[1].rel_time = "0"
        /\ heap[id].items[1].ref_pt = None
        /\ heap[id].items[2].op.t = "node"
        /\ heap[heap[id].items[2].op.id].kind \in SchedKinds
        /\ model_dump(Obj(heap, Node(id))).v[1].v["rel_time"] = JDict([s |-> JStr("0.0")])
        /\ "ref_pt" \notin DOMAIN model_dump(Obj(heap, Node(id))).v[1].v
        /\ RoundTrip(id) = Obj(heap, Node(id))

\* The operations, control-flow objects and wrappers in the tree
LeanObjs ==
    LET held == UNION {{heap[id].items[i] : i \in DOMAIN heap[id].items} : id \in DOMAIN heap}
        objs == {Obj(heap, x) : x \in held}
                \cup {Obj(heap, x.op) : x \in {w \in held : w.t = "sched"}}
    IN  {o \in objs : o.cls \notin {"OpSequence", "Schedule"}}

\* The default a class declares for a field
DeclaredDefault(cls, k) == FieldNamed(model_fields(cls), k).default

\* The fields of a class that have a default and are not the discriminator
OptionalFields(cls) ==
    {k \in FieldNames(model_fields(cls)) \ {"op_type"} : DeclaredDefault(cls, k) # Undefined}

\* A value of the field k that is not its default, and its serialization
Changed(k) == IF k = "rel_time" THEN "5ns" ELSE "changed"
ChangedDump(k) == IF k = "rel_time" THEN Time_dump("5ns") ELSE JStr("changed")

\* C25: the serialization of an operation or of a ScheduledOperation holds
\* the op_type discriminator if the class has one, holds every required
\* field, holds an optional field exactly when its value differs from the
\* declared default, and when one optional field that has its default value
\* is changed to another value, the serialization gains exactly that field
C25_DefaultsOmitted ==
    \A o \in LeanObjs :
        LET d == model_dump(o).v
        IN  /\ DOMAIN d \subseteq DOMAIN o.f
            /\ "op_type" \in DOMAIN o.f => "op_type" \in DOMAIN d
            /\ \A k \in DOMAIN o.f \ ({"op_type"} \cup OptionalFields(o.cls)) : k \in DOMAIN d
            /\ \A k \in OptionalFields(o.cls) :
                    /\ k \in DOMAIN d <=> o.f[k] # DeclaredDefault(o.cls, k)
                    /\ o.f[k] = DeclaredDefault(o.cls, k) =>
                            LET d2 == model_dump([o EXCEPT !.f[k] = Changed(k)]).v
                            IN  /\ DOMAIN d2 = DOMAIN d \cup {k}
                                /\ d2[k] = ChangedDump(k)
                                /\ \A n \in DOMAIN d : d2[n] = d[n]

\* A wrapper with only a name and a rel_time around a Play with a condition
C25_Witness ==
    \E o \in LeanObjs :
        /\ o.cls = "ScheduledOperation"
        /\ DOMAIN model_dump(o).v = {"name", "rel_time", "op"}
        /\ o.f["op"].cls = "play"
        /\ DOMAIN model_dump(o.f["op"]).v = {"op_type", "channel", "pulse", "cond"}

----------------------------------------------------------------------------
(* Construction of iterations (checked under SpecIteration) *)

\* items is a list of iterables, as many as there are variables, all of one
\* length
ItemsMatchVars(var, items) ==
    /\ items.list
    /\ \A i \in DOMAIN items.entries : ~items.entries[i].str
    /\ Len(items.entries) = var.n
    /\ \A i, j \in DOMAIN items.entries : items.entries[i].len = items.entries[j].len

\* C26: constructing an Iteration or a SchedIteration whose var is a list
\* raises unless items is a list of iterables with as many entries as var
\* and all iterables have one common length; with such items (at least one)
\* the construction succeeds
C26_IterationVarsAndItems ==
    (last.fn \in {"Iteration", "SchedIteration"} /\ last.params.var.list) =>
        /\ ~ItemsMatchVars(last.params.var, last.params.items) => last.exc = "ValidationError"
        /\ (ItemsMatchVars(last.params.var, last.params.items) /\ last.params.var.n > 0)
                => last.exc = "none"

\* Two variables and two iterables of lengths 3 and 4: the construction raised
C26_Witness ==
    /\ last.fn = "Iteration"
    /\ last.params.var = VarList(2)
    /\ last.params.items = IterableList(<<3, 4>>)
    /\ last.exc = "ValidationError"

----------------------------------------------------------------------------
(* Schedule.add_op and control flow under a Schedule *)

\* C27: Schedule.add_op called without a name gives the wrapper it appends a
\* generated name op_<n>, and every wrapper in a schedule has a name
C27_AddOpGeneratesName ==
    /\ (AddOpReturned /\ "name" \notin DOMAIN last.params) =>
            IsAutoName(Appended(last.new_id).name)
    /\ \A id \in DOMAIN heap : \A i \in DOMAIN heap[id].items :
            (heap[id].kind \in SchedKinds /\ heap[id].items[i].t = "sched") =>
                heap[id].items[i].name # None

\* C28: a repeat opened while the top of the stack is a Schedule raises
\* RuntimeError and opens nothing
C28_RepeatUnderScheduleRaises ==
    (last.fn = "repeat" /\ pre.stack # <<>> /\ PreKind = "Schedule") =>
        /\ last.exc = "RuntimeError"
        /\ context_stack = pre.stack
        /\ heap = pre.heap

----------------------------------------------------------------------------
(* The visitor (checked under SpecVisit) *)

\* The places of the leaf operations of the tree under the container id, in
\* the order of the item lists
RECURSIVE LeafPlaces(_, _)
LeafPlaces(h, id) ==
    Flatten([i \in DOMAIN h[id].items |->
                LET x == h[id].items[i]
                    o == IF x.t = "sched" THEN x.op ELSE x
                IN  IF o.t = "leaf" THEN <<<<id, i>>>> ELSE LeafPlaces(h, o.id)])

\* The places of the leaf operations a visit recorded, in the order recorded
RECURSIVE VisitedLeafPlaces(_)
VisitedLeafPlaces(result) ==
    IF result = <<>> THEN <<>>
    ELSE (IF Head(result).node.t = "leaf" THEN <<Head(result).pos>> ELSE <<>>)
         \o VisitedLeafPlaces(Tail(result))

\* The visitor that has the method for the class of a container
VisitorOf(kind) == IF kind \in SeqKinds THEN "SequenceVisitor" ELSE "ScheduleVisitor"

\* C29: a visit of an OpSequence or Schedule root with the visitor of its
\* flavor records every leaf operation of the tree exactly once, in the
\* order of the item lists, leaves of nested containers and of control-flow
\* bodies included; a visit of a node for whose class the visitor has no
\* method records that node through generic_visit and nothing else
C29_VisitReachesEveryLeafOnce ==
    (last.fn = "visit" /\ heap[last.new_id].kind \in {"OpSequence", "Schedule"}) =>
        IF last.params.visitor = VisitorOf(heap[last.new_id].kind)
        THEN VisitedLeafPlaces(last.result) = LeafPlaces(heap, last.new_id)
        ELSE last.result = generic_visit(Node(last.new_id), <<0, 0>>)

\* A visited Schedule whose only leaf is in the body of a control-flow
\* object it holds: the visit recorded the leaf, then the body, the
\* control-flow object and the root
C29_Witness ==
    /\ last.fn = "visit"
    /\ heap[last.new_id].kind = "Schedule"
    /\ last.params.visitor = "ScheduleVisitor"
    /\ Len(LeafPlaces(heap, last.new_id)) = 1
    /\ LeafPlaces(heap, last.new_id)[1][1] # last.new_id
    /\ heap[LeafPlaces(heap, last.new_id)[1][1]].kind \in SchedBodyKinds
    /\ Len(last.result) = 4
    /\ VisitedLeafPlaces(last.result) = LeafPlaces(heap, last.new_id)

----------------------------------------------------------------------------
(* Interleaved construction flows (checked under SpecFlows) *)

\* C30: the builder does not separate interleaved flows.  Whichever flow
\* makes the call, a leaf operation is appended to the container that is on
\* top of the one shared stack, whichever flow opened it, and the close of a
\* with-block pops the top of the shared stack, whichever flow pushed it
C30_NoIsolationBetweenFlows ==
    /\ (last.flow # 0 /\ last.fn \in {"play", "record"} /\ last.exc = "none") =>
            /\ heap = [pre.heap EXCEPT ![PreTop].items = Append(@, Op(last.fn, 1))]
            /\ context_stack = pre.stack
    /\ (last.flow # 0 /\ last.fn = "exit") =>
            /\ context_stack = SubSeq(pre.stack, 1, Len(pre.stack) - 1)
            /\ heap = pre.heap

\* Flow 1 closed its with-block and that popped the scope of a with-block of
\* flow 2 that is still open, not the scope flow 1 had pushed; and the
\* container flow 2 opened holds a play, which only flow 1 emits
C30_Witness ==
    /\ last.fn = "exit"
    /\ last.flow = 1
    /\ PreTop # last.frame.sched_id
    /\ last.frame.sched_id \in {context_stack[i] : i \in DOMAIN context_stack}
    /\ \E i \in DOMAIN frames :
            /\ frames[i].flow = 2
            /\ frames[i].sched_id = PreTop
            /\ \E k \in DOMAIN heap[PreTop].items : heap[PreTop].items[k] = Op("play", 1)

----------------------------------------------------------------------------
(* The composite measurement calls (checked under SpecLeaf) *)

\* The wrappers a call appended to the container that was on top of the stack
NewItems == SubSeq(heap[PreTop].items, Len(pre.heap[PreTop].items) + 1, Len(heap[PreTop].items))

\* C31: measure called under a Schedule, with any timing parameters (a given
\* name included), appends a Play wrapper and then a Record wrapper whose
\* ref_op is the name of the Play wrapper, with ref_pt = start, ref_pt_new =
\* start and no time offset; the ref_op of the Record wrapper is never the
\* Record wrapper's own name.
C31_MeasureRecordAnchoredOnPlay ==
    (last.fn = "measure" /\ pre.stack # <<>> /\ PreKind = "Schedule") =>
        /\ Len(NewItems) = 2
        /\ NewItems[1].op = Op("play", 1)
        /\ NewItems[2].op = Op("record", 1)
        /\ NewItems[2].ref_op = NewItems[1].name
        /\ NewItems[2].ref_pt = "start"
        /\ NewItems[2].ref_pt_new = "start"
        /\ NewItems[2].rel_time = None
        /\ NewItems[2].ref_op # NewItems[2].name

MeasureIf == "measure_and_discriminate_and_if_"

\* C32: measure_and_discriminate_and_if_ under a sequence-like scope appends
\* to the current scope, in this order, the Play, the Record, the Discriminate
\* and the Conditional, and makes the Conditional the current scope; an
\* operation emitted inside the with-block goes into the body of the
\* Conditional; when the with-block is left the scope stack is as it was
\* before the call.
C32_MeasureIfUnderSequence ==
    /\ (last.fn = MeasureIf /\ pre.stack # <<>> /\ PreKind \in SeqKinds) =>
            /\ last.exc = "none"
            /\ heap[PreTop].items = pre.heap[PreTop].items \o
                    <<Op("play", 1), Op("record", 1), Op("discriminate", 0), Node(last.new_id)>>
            /\ last.new_id \notin DOMAIN pre.heap
            /\ heap[last.new_id] = [kind |-> "Conditional", items |-> <<>>]
            /\ context_stack = Append(pre.stack, last.new_id)
    /\ (/\ LeafEmit
        /\ last.exc = "none"
        /\ frames # <<>>
        /\ TopFrame.opener = MeasureIf
        /\ TopFrame.entry_stack # <<>>
        /\ heap[Last(TopFrame.entry_stack)].kind \in SeqKinds) =>
            /\ heap[TopFrame.sched_id].items = Append(pre.heap[TopFrame.sched_id].items, LastOp)
            /\ \A id \in DOMAIN pre.heap \ {TopFrame.sched_id} : heap[id] = pre.heap[id]
    /\ (/\ last.fn = "exit"
        /\ last.frame.opener = MeasureIf
        /\ last.frame.entry_stack # <<>>
        /\ heap[Last(last.frame.entry_stack)].kind \in SeqKinds) =>
            /\ context_stack = last.frame.entry_stack
            /\ heap = pre.heap

\* The with-block of a measure_and_discriminate_and_if_ called in an empty
\* sequence was left after one play had been emitted in it
C32_Witness ==
    /\ last.fn = "exit"
    /\ last.frame.opener = MeasureIf
    /\ last.pending = "none"
    /\ Len(context_stack) = 1
    /\ heap[context_stack[1]].kind = "OpSequence"
    /\ heap[context_stack[1]].items =
            <<Op("play", 1), Op("record", 1), Op("discriminate", 0), Node(last.frame.sched_id)>>
    /\ heap[last.frame.sched_id] = [kind |-> "Conditional", items |-> <<Op("play", 1)>>]

\* The names of the wrappers in the item list of the container id
WrapperNames(id) == [i \in DOMAIN heap[id].items |->
                        IF heap[id].items[i].t = "sched" THEN heap[id].items[i].name ELSE None]

\* C33: in a schedule container built through the builder no two wrappers
\* have the same name, whatever mix of auto-named calls, calls with a given
\* name and measure / measure_and_discriminate calls built it.
C33_WrapperNamesUnique ==
    \A id \in DOMAIN heap : heap[id].kind \in SchedKinds =>
        \A i, j \in DOMAIN heap[id].items :
            (/\ i # j
             /\ heap[id].items[i].t = "sched"
             /\ heap[id].items[j].t = "sched") => WrapperNames(id)[i] # WrapperNames(id)[j]

\* C35: if measure, measure_and_discriminate or
\* measure_and_discriminate_and_if_ raises while a scope is open, none of its
\* component operations has been appended: the container on top of the stack
\* is as it was before the call.
C35_RaisingMeasureAppendsNothing ==
    (/\ last.fn \in {"measure", "measure_and_discriminate", MeasureIf}
     /\ last.exc # "none"
     /\ pre.stack # <<>>) => heap[PreTop] = pre.heap[PreTop]

\* C37: every wrapper the builder appended has a name that is a string (the
\* given one or the generated op_<n>), and the token a call returns carries
\* the name of the wrapper the call appended last, whatever value the caller
\* passed for the name parameter.
C37_WrapperNamesAreStrings ==
    /\ \A id \in DOMAIN heap : \A i \in DOMAIN heap[id].items :
            heap[id].items[i].t = "sched" => heap[id].items[i].name # None
    /\ (last.ret.tok /\ pre.stack # <<>>) =>
            /\ NewItems # <<>>
            /\ Last(NewItems).name = last.ret.name
            /\ last.ret.name # None

----------------------------------------------------------------------------
(* Pending blocks over a whole construction (checked under Spec) *)

\* C34: whenever the scope stack is empty the registry of pending blocks
\* holds no block, whatever kind of scope the blocks were registered against.
C34_NoBlockPendingOutsideScopes ==
    context_stack = <<>> =>
        \A k \in DOMAIN unconsumed_blocks : unconsumed_blocks[k] = <<>>

\* C38: if the body captured by a block raises while add_block executes it,
\* the exception comes out of add_block with the nested Schedule scope
\* popped and the block out of the registry; a block that is out of the
\* registry never comes back into it, and the close of a schedule reports
\* only blocks that were in the registry when it began, so the later close
\* of the enclosing schedule does not report that block.
C38_RaisingBlockIsConsumed ==
    /\ []((last.fn = "add_block" /\ last.body = "raise"
            /\ pre.stack # <<>> /\ PreKind = "Schedule") =>
                /\ last.exc = "UserError"
                /\ context_stack = pre.stack
                /\ last.new_id \notin DOMAIN unconsumed_blocks
                /\ ~Pending(unconsumed_blocks, last.block))
    /\ [](last.fn = "exit" => \A j \in DOMAIN last.report : Pending(pre.unc, last.report[j]))
    /\ [][\A b \in DOMAIN blocks :
            ~Pending(unconsumed_blocks, b) => ~Pending(unconsumed_blocks', b)]_vars

\* A build_schedule closed without error although the body of a block created
\* in it had raised inside add_block (the exception was caught inside the
\* with-block)
C38_Witness ==
    /\ last.fn = "exit"
    /\ last.frame.opener = "build_schedule"
    /\ last.pending = "none"
    /\ last.exc = "none"
    /\ last.report = <<>>
    /\ \E b \in last.frame.created :
            /\ blocks[b].body = "raise"
            /\ blocks[b].passed
            /\ ~blocks[b].added
    /\ \E i \in DOMAIN heap[last.frame.sched_id].items :
            /\ heap[last.frame.sched_id].items[i].op.t = "node"
            /\ heap[heap[last.frame.sched_id].items[i].op.id].items = <<>>

----------------------------------------------------------------------------
(* Blocks over several constructions (checked under SpecReuse) *)

\* C36: the body captured by a block is executed at most once: an add_block
\* call given a block that an earlier add_block has consumed runs no body and
\* appends no nested Schedule, so it leaves every container as it was.
C36_BlockExecutedAtMostOnce ==
    [][\A b \in DOMAIN blocks :
            (blocks[b].added /\ last'.fn = "add_block" /\ last'.block = b) => heap' = heap]_vars

====
